---- MODULE Spec2Model ----
(***************************************************************************)
(* A state-machine model of the sagenex-backend services: the placement    *)
(* engine (user.service.ts), the deposit verification and bonus engine     *)
(* (admin.service.ts, payout.service.ts, wallet.service.ts) and the wallet *)
(* ledger with OTP-gated transfers and withdrawals (wallet.service.ts,     *)
(* admin.service.ts).                                                      *)
(*                                                                         *)
(* The data store is the shared state.  A request handler is a call of a   *)
(* process: its reads and its writes are separate steps, so that two       *)
(* handlers interleave the way two requests against the same MongoDB do.   *)
(* A call ends in the position "done", where its record holds what it      *)
(* returned or threw, and is then forgotten (Return).                      *)
(*                                                                         *)
(* Time is counted in units of ten minutes, from 1.  Amounts are whole     *)
(* USDT and percentages are whole percents; the deposits of the model are  *)
(* multiples of 100, so that every bonus amount is exact (the code's       *)
(* binary floating point is not modelled).                                 *)
(***************************************************************************)
EXTENDS Integers, Sequences, FiniteSets, TLC

VARIABLES
    users,           \* the User collection, tree fields: userId -> document
    userSeq,         \* the Counter document 'userId'
    deletedUsers,    \* the DeletedUser collection: the userIds archived
    pkg,             \* the User collection, package fields: userId -> fields
    kyc,             \* the User collection, kycStatus: userId -> status
    otps,            \* the User collection, OTP fields: userId -> fields
    offlineDeposits, \* the OfflineDeposit collection: deposit id -> document
    cryptoDeposits,  \* the CryptoDeposit collection: deposit id -> document
    ledger,          \* the WalletLedger collection, in insertion order
    wallets,         \* the WalletSummary collection: owner -> document
    txSeq,           \* the number of transaction ids drawn so far
    placeCalls,      \* placement handlers: process -> position, locals, result
    fundCalls,       \* deposit handlers: process -> position, locals, result
    walletCalls,     \* wallet handlers: process -> position, locals, result
    mismatchRun,     \* history: per sender, the run of OTP-mismatch failures
    otpRun,          \* history: per member, the run of transfer OTPs issued
    payoutRun,       \* calculateMonthlyPayouts: the document read, the snapshot
    now              \* the wall clock, in units of ten minutes

vars == <<users, userSeq, deletedUsers, pkg, kyc, otps, offlineDeposits,
          cryptoDeposits, ledger, wallets, txSeq, placeCalls, fundCalls, walletCalls,
          mismatchRun, otpRun, payoutRun, now>>

placeVars == <<users, userSeq, deletedUsers, placeCalls>>
fundVars == <<pkg, offlineDeposits, cryptoDeposits, fundCalls>>
walletVars == <<kyc, otps, txSeq, walletCalls, mismatchRun, otpRun>>
moneyVars == <<ledger, wallets>>

-----------------------------------------------------------------------------
(* Bounds of the model *)

MaxUsers == 15
MaxOffline == 2
MaxCrypto == 1
MaxWithdrawals == 2
MaxAbortLedger == 8
MaxOtpRequests == 2
MaxTimeWallet == 3
\* Specification SpecLockout: the clock stops here, past the hour of a lockout
MaxTimeLockout == 8
MaxTransfers == 2
MaxTimeQueue == 433
MaxTimeOtp == 16
\* Members of the chain SpecUpline starts from
MaxChain == 9

(* Program constants *)

Root == 0
Null == -1
directWidthCap == 6
PLACEMENT_WINDOW == 288
MINIMUM_DEPOSIT_USD == 15
OTP_TTL == 1
HOUR == 6
MAX_OTP_REQUESTS == 5
MAX_FAILED_OTP == 5

UserIds == 1..MaxUsers
Procs == {1, 2}
NoEmail == 0
NoDeadline == 0
NoTime == 0
NoOtp == 0
NoDeposit == 0
NoLevel == 0
NoTx == 0
Ghost == MaxUsers + 85   \* an id no member has

\* The referral code of member u
RefCode(u) == 1000 + u

\* Crypto deposits have ids of their own: the model tells them from the offline
\* ones by an offset.
CryptoRef(i) == 100 + i

\* The payment id the gateway gives the i-th invoice
PaymentId(i) == 500 + i

\* The TEMP_<ObjectId> payment id a deposit carries until the gateway answers
TempPaymentId(i) == 900 + i

-----------------------------------------------------------------------------
(* The User collection *)

NoUser ==
    [exists |-> FALSE, email |-> NoEmail, originalSponsorId |-> Null,
     parentId |-> Null, isSplitSponsor |-> FALSE, placementDeadline |-> NoDeadline]

NewUserDoc(email, originalSponsorId, parentId, isSplitSponsor, placementDeadline) ==
    [exists |-> TRUE, email |-> email, originalSponsorId |-> originalSponsorId,
     parentId |-> parentId, isSplitSponsor |-> isSplitSponsor,
     placementDeadline |-> placementDeadline]

NoPackage == [packageUSD |-> 0, isPackageActive |-> FALSE]

\* The OTP fields executeTransfer and generateAndSendTransferOtp read and write
\* on the user document, before any OTP was asked for
NoOtpDoc ==
    [otp |-> NoOtp, otpExpires |-> NoTime, failedOtpAttempts |-> 0,
     otpLockoutExpires |-> NoTime, otpRequestCount |-> 0,
     otpRequestTimestamp |-> NoTime]

Exists(u) == u \in UserIds /\ users[u].exists

\* User.countDocuments({ parentId: u })
DirectCount(u) == Cardinality({c \in UserIds : users[c].exists /\ users[c].parentId = u})

\* User.findOne({ email })
EmailExists(email) == \E u \in UserIds : users[u].exists /\ users[u].email = email

\* User.findOne({ $or: [{ userId: key }, { referralCode: key }] })
FindSponsor(key) == {u \in UserIds : users[u].exists /\ (u = key \/ RefCode(u) = key)}

\* OfflineDeposit.countDocuments({ userId: u, status: 'VERIFIED' })
VerifiedOfflineCount(u) ==
    Cardinality({d \in DOMAIN offlineDeposits :
                    offlineDeposits[d].userId = u /\ offlineDeposits[d].status = "VERIFIED"})

\* CryptoDeposit.countDocuments({ userId: u, status: 'CONFIRMED' })
ConfirmedCryptoCount(u) ==
    Cardinality({d \in DOMAIN cryptoDeposits :
                    cryptoDeposits[d].userId = u /\ cryptoDeposits[d].status = "CONFIRMED"})

-----------------------------------------------------------------------------
(* Commission schedule (config/payouts) *)

\* FIRST_DEPOSIT_DIRECT_BONUS_PCT, in percent
FIRST_DEPOSIT_DIRECT_BONUS_PCT == 10

\* UNILEVEL_PCTS, in percent
UNILEVEL_PCTS == <<10, 6, 5, 4, 3, 2>>

\* getReinvestmentBonusPct, in percent
getReinvestmentBonusPct(depositCount) ==
    CASE depositCount = 1 -> 8
      [] depositCount = 2 -> 6
      [] depositCount = 3 -> 5
      [] depositCount = 4 -> 4
      [] depositCount = 5 -> 3
      [] OTHER -> 2

\* amount * pct, pct in percent
Pct(amount, pct) == (amount * pct) \div 100

-----------------------------------------------------------------------------
(* The wallet collections *)

WalletOwners == UserIds \cup {Root}

NoWallet == [exists |-> FALSE, availableToWithdraw |-> 0, lifetimeEarnings |-> 0]

LedgerEntry(userId, type, amount, status, depositId, sourceUserId, level, txId) ==
    [userId |-> userId, type |-> type, amount |-> amount, status |-> status,
     depositId |-> depositId, sourceUserId |-> sourceUserId, level |-> level,
     txId |-> txId]

\* WalletSummary.findOneAndUpdate({ userId }, { $inc: { availableToWithdraw,
\* lifetimeEarnings }, $setOnInsert }, { upsert: true })
IncWallet(w, owner, available, lifetime) ==
    [w EXCEPT ![owner] =
        [exists |-> TRUE,
         availableToWithdraw |-> @.availableToWithdraw + available,
         lifetimeEarnings |-> @.lifetimeEarnings + lifetime]]

-----------------------------------------------------------------------------
(* Placement handlers (user/user.service.ts) *)

IdlePlace ==
    [op |-> "idle", pc |-> "idle", err |-> "", userId |-> Null, email |-> NoEmail,
     originalSponsorId |-> Null, parentId |-> Null, isSplitSponsor |-> FALSE,
     placementDeadline |-> NoDeadline]

\* Ids the counter may still hand out, the inserts in flight counted.
PendingInserts ==
    Cardinality({p \in Procs : placeCalls[p].pc = "save"
                                /\ placeCalls[p].op \in {"createNewUser", "createNewUserQueued"}})

CanInsert == userSeq + PendingInserts < MaxUsers

\* createNewUser counting the company's direct children like a member's
PlacementDecisionRootCapped(sponsorKey, designee) ==
    LET effectiveSponsorId == IF sponsorKey = Null THEN Root ELSE sponsorKey
        found == FindSponsor(effectiveSponsorId)
    IN  IF effectiveSponsorId = Root
        THEN IF DirectCount(Root) < directWidthCap
             THEN [err |-> "OK", originalSponsorId |-> Root, parentId |-> Root,
                   isSplitSponsor |-> FALSE]
             ELSE [err |-> "ValidationError", originalSponsorId |-> Root,
                   parentId |-> Null, isSplitSponsor |-> FALSE]
        ELSE IF found = {}
        THEN [err |-> "NotFoundError", originalSponsorId |-> Null, parentId |-> Null,
              isSplitSponsor |-> FALSE]
        ELSE LET sponsor == CHOOSE u \in found : TRUE
             IN  IF DirectCount(sponsor) < directWidthCap
                 THEN IF designee # Null
                      THEN [err |-> "ValidationError", originalSponsorId |-> sponsor,
                            parentId |-> Null, isSplitSponsor |-> FALSE]
                      ELSE [err |-> "OK", originalSponsorId |-> sponsor,
                            parentId |-> sponsor, isSplitSponsor |-> FALSE]
                 ELSE IF designee = Null
                      THEN [err |-> "ValidationError", originalSponsorId |-> sponsor,
                            parentId |-> Null, isSplitSponsor |-> FALSE]
                      ELSE IF ~Exists(designee) \/ users[designee].parentId # sponsor
                      THEN [err |-> "ValidationError", originalSponsorId |-> sponsor,
                            parentId |-> Null, isSplitSponsor |-> FALSE]
                      ELSE IF DirectCount(designee) >= directWidthCap
                      THEN [err |-> "ConflictError", originalSponsorId |-> sponsor,
                            parentId |-> Null, isSplitSponsor |-> FALSE]
                      ELSE [err |-> "OK", originalSponsorId |-> sponsor,
                            parentId |-> designee, isSplitSponsor |-> TRUE]

\* createNewUser accepting any direct child of a full sponsor as designee,
\* without counting the designee's children
PlacementDecisionDesigneeUncounted(sponsorKey, designee) ==
    LET effectiveSponsorId == IF sponsorKey = Null THEN Root ELSE sponsorKey
        found == FindSponsor(effectiveSponsorId)
    IN  IF effectiveSponsorId = Root
        THEN [err |-> "OK", originalSponsorId |-> Root, parentId |-> Root,
              isSplitSponsor |-> FALSE]
        ELSE IF found = {}
        THEN [err |-> "NotFoundError", originalSponsorId |-> Null, parentId |-> Null,
              isSplitSponsor |-> FALSE]
        ELSE LET sponsor == CHOOSE u \in found : TRUE
             IN  IF DirectCount(sponsor) < directWidthCap
                 THEN IF designee # Null
                      THEN [err |-> "ValidationError", originalSponsorId |-> sponsor,
                            parentId |-> Null, isSplitSponsor |-> FALSE]
                      ELSE [err |-> "OK", originalSponsorId |-> sponsor,
                            parentId |-> sponsor, isSplitSponsor |-> FALSE]
                 ELSE IF designee = Null
                      THEN [err |-> "ValidationError", originalSponsorId |-> sponsor,
                            parentId |-> Null, isSplitSponsor |-> FALSE]
                      ELSE IF ~Exists(designee) \/ users[designee].parentId # sponsor
                      THEN [err |-> "ValidationError", originalSponsorId |-> sponsor,
                            parentId |-> Null, isSplitSponsor |-> FALSE]
                      ELSE [err |-> "OK", originalSponsorId |-> sponsor,
                            parentId |-> designee, isSplitSponsor |-> TRUE]

\* createNewUser placing the member under the sponsor even when a designee of a
\* full sponsor is accepted
PlacementDecisionUnderSponsor(sponsorKey, designee) ==
    LET effectiveSponsorId == IF sponsorKey = Null THEN Root ELSE sponsorKey
        found == FindSponsor(effectiveSponsorId)
    IN  IF effectiveSponsorId = Root
        THEN [err |-> "OK", originalSponsorId |-> Root, parentId |-> Root,
              isSplitSponsor |-> FALSE]
        ELSE IF found = {}
        THEN [err |-> "NotFoundError", originalSponsorId |-> Null, parentId |-> Null,
              isSplitSponsor |-> FALSE]
        ELSE LET sponsor == CHOOSE u \in found : TRUE
             IN  IF designee # Null /\ DirectCount(sponsor) < directWidthCap
                 THEN [err |-> "ValidationError", originalSponsorId |-> sponsor,
                       parentId |-> Null, isSplitSponsor |-> FALSE]
                 ELSE [err |-> "OK", originalSponsorId |-> sponsor,
                       parentId |-> sponsor, isSplitSponsor |-> FALSE]

\* createNewUser (immediate placement), step 2: sponsor resolution and the width
\* cap.  sponsorKey and designee are the request's sponsorId and
\* placementDesigneeId (Null when absent).
PlacementDecision(sponsorKey, designee) ==
    LET effectiveSponsorId == IF sponsorKey = Null THEN Root ELSE sponsorKey
        found == FindSponsor(effectiveSponsorId)
    IN  IF effectiveSponsorId = Root
        THEN [err |-> "OK", originalSponsorId |-> Root, parentId |-> Root,
              isSplitSponsor |-> FALSE]
        ELSE IF found = {}
        THEN [err |-> "NotFoundError", originalSponsorId |-> Null, parentId |-> Null,
              isSplitSponsor |-> FALSE]
        ELSE LET sponsor == CHOOSE u \in found : TRUE
             IN  IF DirectCount(sponsor) < directWidthCap
                 THEN IF designee # Null
                      THEN [err |-> "ValidationError", originalSponsorId |-> sponsor,
                            parentId |-> Null, isSplitSponsor |-> FALSE]
                      ELSE [err |-> "OK", originalSponsorId |-> sponsor,
                            parentId |-> sponsor, isSplitSponsor |-> FALSE]
                 ELSE IF designee = Null
                      THEN [err |-> "ValidationError", originalSponsorId |-> sponsor,
                            parentId |-> Null, isSplitSponsor |-> FALSE]
                      ELSE IF ~Exists(designee) \/ users[designee].parentId # sponsor
                      THEN [err |-> "ValidationError", originalSponsorId |-> sponsor,
                            parentId |-> Null, isSplitSponsor |-> FALSE]
                      ELSE IF DirectCount(designee) >= directWidthCap
                      THEN [err |-> "ConflictError", originalSponsorId |-> sponsor,
                            parentId |-> Null, isSplitSponsor |-> FALSE]
                      ELSE [err |-> "OK", originalSponsorId |-> sponsor,
                            parentId |-> designee, isSplitSponsor |-> TRUE]

\* createNewUser (queued placement), step 2: a member under a real sponsor is
\* left unplaced, with a 48-hour placement deadline.
QueuedPlacementDecision(sponsorKey) ==
    LET effectiveSponsorId == IF sponsorKey = Null THEN Root ELSE sponsorKey
        found == FindSponsor(effectiveSponsorId)
    IN  IF effectiveSponsorId = Root
        THEN [err |-> "OK", originalSponsorId |-> Root, parentId |-> Root,
              placementDeadline |-> NoDeadline]
        ELSE IF found = {}
        THEN [err |-> "NotFoundError", originalSponsorId |-> Null, parentId |-> Null,
              placementDeadline |-> NoDeadline]
        ELSE [err |-> "OK", originalSponsorId |-> CHOOSE u \in found : TRUE,
              parentId |-> Null, placementDeadline |-> now + PLACEMENT_WINDOW]

\* Step 1 of either createNewUser: name and email are required (email = NoEmail
\* stands for a request without them) and the email must be new.
BasicValidation(email) ==
    IF email = NoEmail THEN "ValidationError"
    ELSE IF EmailExists(email) THEN "ConflictError"
    ELSE "OK"

\* A call that has ended: what it threw, or "OK" and the id it returns
PlaceDone(op, err, userId) ==
    [IdlePlace EXCEPT !.op = op, !.pc = "done", !.err = err, !.userId = userId]

\* createNewUser (immediate placement), steps 1 and 2: every read and check up to
\* the construction of the new document.
CreateNewUserCheck(p, email, sponsorKey, designee) ==
    /\ placeCalls[p].pc = "idle"
    /\ CanInsert
    /\ LET d == PlacementDecision(sponsorKey, designee)
           basic == BasicValidation(email)
           err == IF basic # "OK" THEN basic ELSE d.err
       IN  placeCalls' = [placeCalls EXCEPT ![p] =
               IF err = "OK"
               THEN [IdlePlace EXCEPT !.op = "createNewUser", !.pc = "save",
                                      !.email = email,
                                      !.originalSponsorId = d.originalSponsorId,
                                      !.parentId = d.parentId,
                                      !.isSplitSponsor = d.isSplitSponsor]
               ELSE PlaceDone("createNewUser", err, Null)]
    /\ UNCHANGED <<users, userSeq, deletedUsers, now, payoutRun, fundVars, walletVars, moneyVars>>

\* createNewUser (queued placement), steps 1 and 2
CreateNewUserQueuedCheck(p, email, sponsorKey) ==
    /\ placeCalls[p].pc = "idle"
    /\ CanInsert
    /\ LET d == QueuedPlacementDecision(sponsorKey)
           basic == BasicValidation(email)
           err == IF basic # "OK" THEN basic ELSE d.err
       IN  placeCalls' = [placeCalls EXCEPT ![p] =
               IF err = "OK"
               THEN [IdlePlace EXCEPT !.op = "createNewUserQueued", !.pc = "save",
                                      !.email = email,
                                      !.originalSponsorId = d.originalSponsorId,
                                      !.parentId = d.parentId,
                                      !.placementDeadline = d.placementDeadline]
               ELSE PlaceDone("createNewUserQueued", err, Null)]
    /\ UNCHANGED <<users, userSeq, deletedUsers, now, payoutRun, fundVars, walletVars, moneyVars>>

\* The counter update leaving seq as it is
CounterNextStuck(seq) == seq

\* Counter.findByIdAndUpdate({ _id }, { $inc: { seq: 1 } }, { new: true, upsert:
\* true }): one atomic update of the counter document; the value it returns
CounterNext(seq) == seq + 1

\* newUser.save() of either createNewUser: the pre-save hook takes the next id
\* from the counter (one atomic $inc), then the document is inserted; the unique
\* index on email rejects an insert whose email another insert took meanwhile.
NewUserSave(p) ==
    /\ placeCalls[p].pc = "save"
    /\ placeCalls[p].op \in {"createNewUser", "createNewUserQueued"}
    /\ LET c == placeCalls[p]
           id == CounterNext(userSeq)
       IN  /\ userSeq' = id
           /\ IF EmailExists(c.email)
              THEN /\ users' = users
                   /\ placeCalls' = [placeCalls EXCEPT ![p] =
                          PlaceDone(c.op, "DuplicateKeyError", Null)]
              ELSE /\ users' = [users EXCEPT ![id] =
                          NewUserDoc(c.email, c.originalSponsorId, c.parentId,
                                     c.isSplitSponsor, c.placementDeadline)]
                   /\ placeCalls' = [placeCalls EXCEPT ![p] = PlaceDone(c.op, "OK", id)]
    /\ UNCHANGED <<deletedUsers, now, payoutRun, fundVars, walletVars, moneyVars>>

\* updateUser, steps 1 and 2: the checks of a parent change.  newParentId is the
\* request's parentId (Null when absent).  The result names the error, or the
\* fields the handler modifies on the loaded document.
UpdateDecision(userId, newParentId) ==
    IF ~Exists(userId)
    THEN [err |-> "NotFoundError", change |-> FALSE, setSponsor |-> FALSE]
    ELSE IF newParentId = Null \/ newParentId = users[userId].parentId
    THEN [err |-> "OK", change |-> FALSE, setSponsor |-> FALSE]
    ELSE IF ~Exists(newParentId)
    THEN [err |-> "NotFoundError", change |-> FALSE, setSponsor |-> FALSE]
    ELSE IF DirectCount(newParentId) >= 6
    THEN [err |-> "ConflictError", change |-> FALSE, setSponsor |-> FALSE]
    ELSE IF users[userId].originalSponsorId = users[userId].parentId
    THEN IF VerifiedOfflineCount(userId) > 0
         THEN [err |-> "ConflictError", change |-> FALSE, setSponsor |-> FALSE]
         ELSE [err |-> "OK", change |-> TRUE, setSponsor |-> TRUE]
    ELSE IF DirectCount(userId) > 0
         THEN [err |-> "ConflictError", change |-> FALSE, setSponsor |-> FALSE]
         ELSE [err |-> "OK", change |-> TRUE, setSponsor |-> FALSE]

UpdateUserCheck(p, userId, newParentId) ==
    /\ placeCalls[p].pc = "idle"
    /\ LET d == UpdateDecision(userId, newParentId)
       IN  placeCalls' = [placeCalls EXCEPT ![p] =
               IF d.err = "OK"
               THEN [IdlePlace EXCEPT !.op = "updateUser", !.pc = "save",
                                      !.userId = userId,
                                      !.originalSponsorId =
                                           IF d.setSponsor THEN newParentId ELSE Null,
                                      !.parentId =
                                           IF d.change THEN newParentId ELSE Null]
               ELSE PlaceDone("updateUser", d.err, userId)]
    /\ UNCHANGED <<users, userSeq, deletedUsers, now, payoutRun, fundVars, walletVars, moneyVars>>

\* updateUser, step 4: user.save() writes the paths the handler modified.
UpdateUserSave(p) ==
    /\ placeCalls[p].pc = "save"
    /\ placeCalls[p].op = "updateUser"
    /\ LET c == placeCalls[p]
       IN  /\ users' = [users EXCEPT ![c.userId] =
                  IF c.parentId = Null THEN @
                  ELSE [@ EXCEPT !.parentId = c.parentId,
                                 !.originalSponsorId =
                                      IF c.originalSponsorId # Null
                                      THEN c.originalSponsorId ELSE @]]
           /\ placeCalls' = [placeCalls EXCEPT ![p] = PlaceDone(c.op, "OK", c.userId)]
    /\ UNCHANGED <<userSeq, deletedUsers, now, payoutRun, fundVars, walletVars, moneyVars>>

\* placeUser without the check of the placement deadline
PlaceUserDecisionNoDeadline(sponsorId, newUserId, placementParentId) ==
    IF ~Exists(newUserId) \/ ~Exists(sponsorId) \/ ~Exists(placementParentId)
    THEN "NotFoundError"
    ELSE IF users[newUserId].parentId # Null THEN "ConflictError"
    ELSE IF users[newUserId].originalSponsorId # sponsorId THEN "AuthorizationError"
    ELSE IF placementParentId # sponsorId /\ users[placementParentId].parentId # sponsorId
    THEN "ValidationError"
    ELSE IF DirectCount(placementParentId) >= directWidthCap THEN "ConflictError"
    ELSE "OK"

\* placeUser, steps 1 to 4: the checks of a manual placement.
PlaceUserDecision(sponsorId, newUserId, placementParentId) ==
    IF ~Exists(newUserId) \/ ~Exists(sponsorId) \/ ~Exists(placementParentId)
    THEN "NotFoundError"
    ELSE IF users[newUserId].parentId # Null THEN "ConflictError"
    ELSE IF users[newUserId].originalSponsorId # sponsorId THEN "AuthorizationError"
    ELSE IF users[newUserId].placementDeadline # NoDeadline
            /\ now > users[newUserId].placementDeadline
    THEN "ConflictError"
    ELSE IF placementParentId # sponsorId /\ users[placementParentId].parentId # sponsorId
    THEN "ValidationError"
    ELSE IF DirectCount(placementParentId) >= directWidthCap THEN "ConflictError"
    ELSE "OK"

\* placeUser: after the checks the placement fields are set on the loaded
\* document, which is returned; the handler never saves it, so the stored
\* document stays as it was.
PlaceUser(p, sponsorId, newUserId, placementParentId) ==
    /\ placeCalls[p].pc = "idle"
    /\ LET err == PlaceUserDecision(sponsorId, newUserId, placementParentId)
       IN  placeCalls' = [placeCalls EXCEPT ![p] =
               IF err = "OK"
               THEN [PlaceDone("placeUser", "OK", newUserId) EXCEPT
                        !.originalSponsorId = sponsorId,
                        !.parentId = placementParentId,
                        !.isSplitSponsor = (placementParentId # sponsorId)]
               ELSE PlaceDone("placeUser", err, newUserId)]
    /\ UNCHANGED <<users, userSeq, deletedUsers, now, payoutRun, fundVars, walletVars, moneyVars>>

-----------------------------------------------------------------------------
(* Deletion of a member (admin/admin.service.ts) *)

\* deleteUser, steps 1 and 2: the member must exist and have no direct child.
DeleteDecision(userId) ==
    IF ~Exists(userId) THEN "NotFoundError"
    ELSE IF DirectCount(userId) > 0 THEN "ConflictError"
    ELSE "OK"

DeleteUserCheck(p, userId) ==
    /\ placeCalls[p].pc = "idle"
    /\ LET err == DeleteDecision(userId)
       IN  placeCalls' = [placeCalls EXCEPT ![p] =
               IF err = "OK"
               THEN [IdlePlace EXCEPT !.op = "deleteUser", !.pc = "wallet",
                                      !.userId = userId]
               ELSE PlaceDone("deleteUser", err, userId)]
    /\ UNCHANGED <<users, userSeq, deletedUsers, now, payoutRun, fundVars, walletVars, moneyVars>>

\* deleteUser, step 3 up to the first write: WalletSummary.findOne({ userId });
\* with funds to move, debitLedger.save() is refused by the schema, whose enum
\* of types has no FUND_TRANSFER_ON_DELETE, and the handler ends there.
DeleteReadWallet(p) ==
    /\ placeCalls[p].op = "deleteUser"
    /\ placeCalls[p].pc = "wallet"
    /\ LET c == placeCalls[p]
           walletSummary == wallets[c.userId]
       IN  placeCalls' = [placeCalls EXCEPT ![p] =
               IF ~walletSummary.exists THEN [c EXCEPT !.pc = "archive"]
               ELSE IF walletSummary.availableToWithdraw > 0
               THEN PlaceDone("deleteUser", "ValidationError", c.userId)
               ELSE [c EXCEPT !.pc = "dropWallet"]]
    /\ UNCHANGED <<users, userSeq, deletedUsers, now, payoutRun, fundVars, walletVars, moneyVars>>

\* walletSummary.deleteOne()
DeleteWallet(p) ==
    /\ placeCalls[p].op = "deleteUser"
    /\ placeCalls[p].pc = "dropWallet"
    /\ wallets' = [wallets EXCEPT ![placeCalls[p].userId] = NoWallet]
    /\ placeCalls' = [placeCalls EXCEPT ![p].pc = "archive"]
    /\ UNCHANGED <<users, userSeq, deletedUsers, ledger, now, payoutRun, fundVars, walletVars>>

\* deleteUser, step 4: deletedUser.save()
DeleteArchive(p) ==
    /\ placeCalls[p].op = "deleteUser"
    /\ placeCalls[p].pc = "archive"
    /\ deletedUsers' = deletedUsers \cup {placeCalls[p].userId}
    /\ placeCalls' = [placeCalls EXCEPT ![p].pc = "remove"]
    /\ UNCHANGED <<users, userSeq, now, payoutRun, fundVars, walletVars, moneyVars>>

\* deleteUser, step 5: user.deleteOne()
DeleteRemove(p) ==
    /\ placeCalls[p].op = "deleteUser"
    /\ placeCalls[p].pc = "remove"
    /\ LET c == placeCalls[p]
       IN  /\ users' = [users EXCEPT ![c.userId] = NoUser]
           /\ placeCalls' = [placeCalls EXCEPT ![p] =
                  PlaceDone("deleteUser", "OK", c.userId)]
    /\ UNCHANGED <<userSeq, deletedUsers, now, payoutRun, fundVars, walletVars, moneyVars>>

\* The handler's answer has been sent.
PlaceReturn(p) ==
    /\ placeCalls[p].pc = "done"
    /\ placeCalls' = [placeCalls EXCEPT ![p] = IdlePlace]
    /\ UNCHANGED <<users, userSeq, deletedUsers, now, payoutRun, fundVars, walletVars, moneyVars>>

\* The clock moves on by d units.
Advance(d, maxTime) ==
    /\ now + d <= maxTime
    /\ now' = now + d
    /\ UNCHANGED <<payoutRun, placeVars, fundVars, walletVars, moneyVars>>

-----------------------------------------------------------------------------
(* Bonus engine (admin/payout.service.ts) *)

\* getUpline(userId, maxLevels): the chain of parents above userId, nearest
\* first, until a member whose parent is absent or the company.
RECURSIVE getUpline(_, _)
getUpline(userId, maxLevels) ==
    IF maxLevels = 0 \/ ~Exists(userId) THEN <<>>
    ELSE LET parentId == users[userId].parentId
         IN  IF parentId = Null \/ parentId = Root \/ ~Exists(parentId) THEN <<>>
             ELSE <<parentId>> \o getUpline(parentId, maxLevels - 1)

getUplineForUnilevel(parentId) ==
    IF parentId = Null \/ parentId = Root THEN <<>>
    ELSE getUpline(parentId, Len(UNILEVEL_PCTS))

\* awardDirectBonus: who is paid and at what percentage.  user is the depositing
\* member's document as the caller loaded it.
DirectBonusRule(user) ==
    LET priorVerifiedDeposits == VerifiedOfflineCount(user.userId)
    IN  IF priorVerifiedDeposits = 0
        THEN [recipientId |-> user.originalSponsorId,
              bonusPct |-> FIRST_DEPOSIT_DIRECT_BONUS_PCT]
        ELSE [recipientId |-> user.parentId,
              bonusPct |-> getReinvestmentBonusPct(priorVerifiedDeposits)]

\* awardDirectBonus without the check for the company as recipient
AwardDirectLedgerPaysRoot(user, depositRef, amount) ==
    LET r == DirectBonusRule(user)
    IN  IF r.recipientId = Null THEN ledger
        ELSE Append(ledger, LedgerEntry(r.recipientId, "DIRECT", Pct(amount, r.bonusPct),
                                        "POSTED", depositRef, user.userId, NoLevel, NoTx))

\* awardDirectBonus: the ledger after it
AwardDirectLedger(user, depositRef, amount) ==
    LET r == DirectBonusRule(user)
    IN  IF r.recipientId = Null \/ r.recipientId = Root THEN ledger
        ELSE Append(ledger, LedgerEntry(r.recipientId, "DIRECT", Pct(amount, r.bonusPct),
                                        "POSTED", depositRef, user.userId, NoLevel, NoTx))

\* awardDirectBonus: the wallet summaries after it
AwardDirectWallets(user, amount) ==
    LET r == DirectBonusRule(user)
    IN  IF r.recipientId = Null \/ r.recipientId = Root THEN wallets
        ELSE IncWallet(wallets, r.recipientId, Pct(amount, r.bonusPct),
                       Pct(amount, r.bonusPct))

\* awardUnilevelBonus: one entry per upline member, level i paid
\* UNILEVEL_PCTS[i]; a level whose amount is not positive is skipped.
RECURSIVE UnilevelLedger(_, _, _, _, _, _)
UnilevelLedger(l, upline, i, userId, depositRef, amount) ==
    IF i > Len(upline) THEN l
    ELSE LET bonusAmount == Pct(amount, UNILEVEL_PCTS[i])
         IN  UnilevelLedger(
                 IF bonusAmount <= 0 THEN l
                 ELSE Append(l, LedgerEntry(upline[i], "UNILEVEL", bonusAmount, "POSTED",
                                            depositRef, userId, i, NoTx)),
                 upline, i + 1, userId, depositRef, amount)

\* awardUnilevelBonus: one credit per upline member
RECURSIVE UnilevelWallets(_, _, _, _)
UnilevelWallets(w, upline, i, amount) ==
    IF i > Len(upline) THEN w
    ELSE LET bonusAmount == Pct(amount, UNILEVEL_PCTS[i])
         IN  UnilevelWallets(
                 IF bonusAmount <= 0 THEN w
                 ELSE IncWallet(w, upline[i], bonusAmount, bonusAmount),
                 upline, i + 1, amount)

-----------------------------------------------------------------------------
(* Deposits (collector/collector.service.ts, wallet/wallet.service.ts) *)

NoSnapshot == [originalSponsorId |-> Null, parentId |-> Null, unilevelUpline |-> <<>>]

NoLoadedUser ==
    [userId |-> Null, originalSponsorId |-> Null, parentId |-> Null,
     packageUSD |-> 0, isPackageActive |-> FALSE]

\* User.findOne({ userId: u }), as a handler holds it afterwards
LoadUser(u) ==
    [userId |-> u, originalSponsorId |-> users[u].originalSponsorId,
     parentId |-> users[u].parentId, packageUSD |-> pkg[u].packageUSD,
     isPackageActive |-> pkg[u].isPackageActive]

IdleFund ==
    [op |-> "idle", pc |-> "idle", err |-> "", depositId |-> NoDeposit, amount |-> 0,
     user |-> NoLoadedUser, upline |-> <<>>, prior |-> 0, by |-> Null]

FundDone(op, err, depositId) ==
    [IdleFund EXCEPT !.op = op, !.pc = "done", !.err = err, !.depositId = depositId]

\* recordDeposit, called by the member's collector in a currency that has a
\* rate: the PENDING deposit and its PENDING OFFLINE_DEPOSIT ledger entry.
RecordDeposit(p, userId, amountUSDT) ==
    /\ fundCalls[p].pc = "idle"
    /\ Len(offlineDeposits) < MaxOffline
    /\ IF ~Exists(userId)
       THEN /\ fundCalls' = [fundCalls EXCEPT ![p] =
                    FundDone("recordDeposit", "NotFoundError", NoDeposit)]
            /\ UNCHANGED <<offlineDeposits, ledger>>
       ELSE /\ offlineDeposits' = Append(offlineDeposits,
                    [userId |-> userId, amountUSDT |-> amountUSDT, status |-> "PENDING",
                     verified |-> FALSE, lineageSnapshot |-> NoSnapshot])
            /\ ledger' = Append(ledger,
                    LedgerEntry(userId, "OFFLINE_DEPOSIT", amountUSDT, "PENDING",
                                Len(offlineDeposits) + 1, Null, NoLevel, NoTx))
            /\ fundCalls' = [fundCalls EXCEPT ![p] =
                    FundDone("recordDeposit", "OK", Len(offlineDeposits) + 1)]
    /\ UNCHANGED <<cryptoDeposits, pkg, wallets, now, payoutRun, placeVars, walletVars>>

\* createCryptoDepositInvoice: the deposit is stored PENDING, then the gateway
\* is asked for an invoice; the deposit takes the invoice's payment id, or
\* keeps its temporary one and becomes FAILED when the gateway call fails.
CreateCryptoDepositInvoice(p, userId, amount, gatewayOk) ==
    /\ fundCalls[p].pc = "idle"
    /\ Len(cryptoDeposits) < MaxCrypto
    /\ IF amount < MINIMUM_DEPOSIT_USD
       THEN /\ fundCalls' = [fundCalls EXCEPT ![p] =
                    FundDone("createCryptoDepositInvoice", "ValidationError", NoDeposit)]
            /\ UNCHANGED cryptoDeposits
       ELSE /\ cryptoDeposits' = Append(cryptoDeposits,
                    [userId |-> userId, amountUSDT |-> amount,
                     nowPaymentsPaymentId |->
                         IF gatewayOk THEN PaymentId(Len(cryptoDeposits) + 1)
                         ELSE TempPaymentId(Len(cryptoDeposits) + 1),
                     status |-> IF gatewayOk THEN "PENDING" ELSE "FAILED",
                     confirmed |-> FALSE])
            /\ fundCalls' = [fundCalls EXCEPT ![p] =
                    FundDone("createCryptoDepositInvoice",
                             IF gatewayOk THEN "OK" ELSE "ApiError",
                             CryptoRef(Len(cryptoDeposits) + 1))]
    /\ UNCHANGED <<offlineDeposits, pkg, ledger, wallets, now, payoutRun, placeVars, walletVars>>

\* updateCryptoDepositStatus: one conditional update of a PENDING deposit
UpdateCryptoDepositStatus(p, depositId, status) ==
    /\ fundCalls[p].pc = "idle"
    /\ depositId \in DOMAIN cryptoDeposits
    /\ cryptoDeposits' = [cryptoDeposits EXCEPT ![depositId].status =
                             IF @ = "PENDING" THEN status ELSE @]
    /\ fundCalls' = [fundCalls EXCEPT ![p] =
            FundDone("updateCryptoDepositStatus", "OK", CryptoRef(depositId))]
    /\ UNCHANGED <<offlineDeposits, pkg, ledger, wallets, now, payoutRun, placeVars, walletVars>>

-----------------------------------------------------------------------------
(* Deposit verification (admin/admin.service.ts, wallet/wallet.service.ts) *)

\* The id a verification's ledger entries carry in meta.depositId
DepositRef(c) ==
    IF c.op = "processCryptoDeposit" THEN CryptoRef(c.depositId) ELSE c.depositId

\* verifyDepositAndActivatePackage, steps 1 and 2 and the count of step 3: the
\* deposit must be PENDING; the member, the unilevel upline and the number of
\* the member's verified deposits are read.
VerifyDecision(depositId) ==
    IF depositId \notin DOMAIN offlineDeposits THEN "NotFoundError"
    ELSE IF offlineDeposits[depositId].status # "PENDING" THEN "ValidationError"
    ELSE IF ~Exists(offlineDeposits[depositId].userId) THEN "NotFoundError"
    ELSE "OK"

VerifyBegin(p, depositId, adminUserId) ==
    /\ fundCalls[p].pc = "idle"
    /\ LET err == VerifyDecision(depositId)
       IN  fundCalls' = [fundCalls EXCEPT ![p] =
               IF err = "OK"
               THEN LET d == offlineDeposits[depositId]
                    IN  [op |-> "verifyDeposit", pc |-> "direct", err |-> "",
                         depositId |-> depositId, amount |-> d.amountUSDT,
                         user |-> LoadUser(d.userId),
                         upline |-> getUplineForUnilevel(users[d.userId].parentId),
                         prior |-> VerifiedOfflineCount(d.userId),
                         by |-> adminUserId]
               ELSE FundDone("verifyDeposit", err, depositId)]
    /\ UNCHANGED <<offlineDeposits, cryptoDeposits, pkg, ledger, wallets, now, payoutRun,
                   placeVars, walletVars>>

\* processCryptoDeposit without the check of the deposit's status
ProcessDecisionReprocesses(depositId, nowPaymentsPaymentId) ==
    IF depositId \notin DOMAIN cryptoDeposits THEN "NotFoundError"
    ELSE IF cryptoDeposits[depositId].nowPaymentsPaymentId # nowPaymentsPaymentId
    THEN "ValidationError"
    ELSE IF ~Exists(cryptoDeposits[depositId].userId) THEN "NotFoundError"
    ELSE "OK"

\* processCryptoDeposit, up to the member's lookup: a deposit that is not
\* PENDING is left alone without an error ("Ignored").
ProcessDecision(depositId, nowPaymentsPaymentId) ==
    IF depositId \notin DOMAIN cryptoDeposits THEN "NotFoundError"
    ELSE IF cryptoDeposits[depositId].status # "PENDING" THEN "Ignored"
    ELSE IF cryptoDeposits[depositId].nowPaymentsPaymentId # nowPaymentsPaymentId
    THEN "ValidationError"
    ELSE IF ~Exists(cryptoDeposits[depositId].userId) THEN "NotFoundError"
    ELSE "OK"

ProcessBegin(p, depositId, nowPaymentsPaymentId) ==
    /\ fundCalls[p].pc = "idle"
    /\ LET err == ProcessDecision(depositId, nowPaymentsPaymentId)
       IN  fundCalls' = [fundCalls EXCEPT ![p] =
               IF err = "OK"
               THEN LET d == cryptoDeposits[depositId]
                    IN  [op |-> "processCryptoDeposit", pc |-> "direct", err |-> "",
                         depositId |-> depositId, amount |-> d.amountUSDT,
                         user |-> LoadUser(d.userId), upline |-> <<>>,
                         prior |-> 0, by |-> Null]
               ELSE FundDone("processCryptoDeposit", err, depositId)]
    /\ UNCHANGED <<offlineDeposits, cryptoDeposits, pkg, ledger, wallets, now, payoutRun,
                   placeVars, walletVars>>

\* payment_status.toUpperCase() in handleNowPaymentsWebhook
toUpperCase(payment_status) ==
    CASE payment_status = "failed" -> "FAILED"
      [] payment_status = "refunded" -> "REFUNDED"
      [] payment_status = "expired" -> "EXPIRED"
      [] OTHER -> "FINISHED"

\* handleNowPaymentsWebhook (webhooks/webhooks.controller.ts) for a request
\* with a valid signature: 'finished' goes to processCryptoDeposit; 'failed',
\* 'refunded' and 'expired' go to updateCryptoDepositStatus with the status in
\* upper case.
handleNowPaymentsWebhook(p, order_id, payment_id, payment_status) ==
    IF payment_status = "finished"
    THEN ProcessBegin(p, order_id, payment_id)
    ELSE /\ payment_status \in {"failed", "refunded", "expired"}
         /\ UpdateCryptoDepositStatus(p, order_id, toUpperCase(payment_status))

\* awardDirectBonus(user, deposit), of either verification
AwardDirect(p) ==
    /\ fundCalls[p].pc = "direct"
    /\ LET c == fundCalls[p]
       IN  /\ ledger' = AwardDirectLedger(c.user, DepositRef(c), c.amount)
           /\ wallets' = AwardDirectWallets(c.user, c.amount)
    /\ fundCalls' = [fundCalls EXCEPT ![p].pc = "unilevel"]
    /\ UNCHANGED <<offlineDeposits, cryptoDeposits, pkg, now, payoutRun, placeVars, walletVars>>

\* verifyDepositAndActivatePackage, the end of step 3: the unilevel bonus, only
\* when the member had no verified deposit at step 3's count.
VerifyUnilevel(p) ==
    /\ fundCalls[p].op = "verifyDeposit"
    /\ fundCalls[p].pc = "unilevel"
    /\ LET c == fundCalls[p]
       IN  IF c.prior = 0
           THEN /\ ledger' = UnilevelLedger(ledger, c.upline, 1, c.user.userId,
                                            DepositRef(c), c.amount)
                /\ wallets' = UnilevelWallets(wallets, c.upline, 1, c.amount)
           ELSE UNCHANGED <<ledger, wallets>>
    /\ fundCalls' = [fundCalls EXCEPT ![p].pc = "mark"]
    /\ UNCHANGED <<offlineDeposits, cryptoDeposits, pkg, now, payoutRun, placeVars, walletVars>>

\* processCryptoDeposit, the unilevel bonus: only when the member has no
\* CONFIRMED crypto deposit; the upline is read here.
ProcessUnilevel(p) ==
    /\ fundCalls[p].op = "processCryptoDeposit"
    /\ fundCalls[p].pc = "unilevel"
    /\ LET c == fundCalls[p]
           unilevelUpline == getUplineForUnilevel(c.user.parentId)
       IN  IF ConfirmedCryptoCount(c.user.userId) = 0
           THEN /\ ledger' = UnilevelLedger(ledger, unilevelUpline, 1, c.user.userId,
                                            DepositRef(c), c.amount)
                /\ wallets' = UnilevelWallets(wallets, unilevelUpline, 1, c.amount)
           ELSE UNCHANGED <<ledger, wallets>>
    /\ fundCalls' = [fundCalls EXCEPT ![p].pc = "mark"]
    /\ UNCHANGED <<offlineDeposits, cryptoDeposits, pkg, now, payoutRun, placeVars, walletVars>>

\* verifyDepositAndActivatePackage, step 4: deposit.save()
VerifyMark(p) ==
    /\ fundCalls[p].op = "verifyDeposit"
    /\ fundCalls[p].pc = "mark"
    /\ LET c == fundCalls[p]
       IN  offlineDeposits' = [offlineDeposits EXCEPT ![c.depositId] =
               [@ EXCEPT !.status = "VERIFIED", !.verified = TRUE,
                         !.lineageSnapshot =
                             [originalSponsorId |-> c.user.originalSponsorId,
                              parentId |-> c.user.parentId,
                              unilevelUpline |-> c.upline]]]
    /\ fundCalls' = [fundCalls EXCEPT ![p].pc = "entry"]
    /\ UNCHANGED <<cryptoDeposits, pkg, ledger, wallets, now, payoutRun, placeVars, walletVars>>

\* processCryptoDeposit: deposit.status = 'CONFIRMED'; deposit.save()
ProcessMark(p) ==
    /\ fundCalls[p].op = "processCryptoDeposit"
    /\ fundCalls[p].pc = "mark"
    /\ cryptoDeposits' = [cryptoDeposits EXCEPT ![fundCalls[p].depositId] =
                             [@ EXCEPT !.status = "CONFIRMED", !.confirmed = TRUE]]
    /\ fundCalls' = [fundCalls EXCEPT ![p].pc = "user"]
    /\ UNCHANGED <<offlineDeposits, pkg, ledger, wallets, now, payoutRun, placeVars, walletVars>>

\* WalletLedger.updateOne({ 'meta.depositId': d, type: 'OFFLINE_DEPOSIT' },
\* { $set: { status: 'VERIFIED' } }): the first entry that matches
SetDepositEntryVerified(l, depositId) ==
    LET hits == {i \in DOMAIN l : l[i].type = "OFFLINE_DEPOSIT" /\ l[i].depositId = depositId}
    IN  IF hits = {} THEN l
        ELSE LET first == CHOOSE i \in hits : \A j \in hits : i <= j
             IN  [l EXCEPT ![first].status = "VERIFIED"]

\* verifyDepositAndActivatePackage, step 5
VerifyEntry(p) ==
    /\ fundCalls[p].op = "verifyDeposit"
    /\ fundCalls[p].pc = "entry"
    /\ ledger' = SetDepositEntryVerified(ledger, fundCalls[p].depositId)
    /\ fundCalls' = [fundCalls EXCEPT ![p].pc = "user"]
    /\ UNCHANGED <<offlineDeposits, cryptoDeposits, pkg, wallets, now, payoutRun, placeVars, walletVars>>

\* The package step storing the deposit's amount as the package value
ActivatePackageOverwrites(p) ==
    /\ fundCalls[p].pc = "user"
    /\ LET c == fundCalls[p]
       IN  pkg' = [pkg EXCEPT ![c.user.userId] =
                      [packageUSD |-> c.amount, isPackageActive |-> TRUE]]
    /\ fundCalls' = [fundCalls EXCEPT ![p].pc = "activation"]
    /\ UNCHANGED <<offlineDeposits, cryptoDeposits, ledger, wallets, now, payoutRun, placeVars, walletVars>>

\* user.packageUSD += deposit.amountUSDT; user.isPackageActive = true;
\* user.save(): the loaded document's values are written back.
ActivatePackage(p) ==
    /\ fundCalls[p].pc = "user"
    /\ LET c == fundCalls[p]
       IN  pkg' = [pkg EXCEPT ![c.user.userId] =
                      [packageUSD |-> c.user.packageUSD + c.amount,
                       isPackageActive |-> TRUE]]
    /\ fundCalls' = [fundCalls EXCEPT ![p].pc = "activation"]
    /\ UNCHANGED <<offlineDeposits, cryptoDeposits, ledger, wallets, now, payoutRun, placeVars, walletVars>>

\* The PACKAGE_ACTIVATION entry of either verification
ActivationEntry(p) ==
    /\ fundCalls[p].pc = "activation"
    /\ LET c == fundCalls[p]
       IN  ledger' = Append(ledger,
               LedgerEntry(c.user.userId, "PACKAGE_ACTIVATION", c.amount, "POSTED",
                           DepositRef(c), Null, NoLevel, NoTx))
    /\ fundCalls' = [fundCalls EXCEPT ![p].pc = "summary"]
    /\ UNCHANGED <<offlineDeposits, cryptoDeposits, pkg, wallets, now, payoutRun, placeVars, walletVars>>

\* WalletSummary.findOneAndUpdate({ userId }, { $setOnInsert }, { upsert: true }),
\* the last step of either verification
InitSummary(p) ==
    /\ fundCalls[p].pc = "summary"
    /\ wallets' = IncWallet(wallets, fundCalls[p].user.userId, 0, 0)
    /\ fundCalls' = [fundCalls EXCEPT ![p].pc = "done", ![p].err = "OK"]
    /\ UNCHANGED <<offlineDeposits, cryptoDeposits, pkg, ledger, now, payoutRun, placeVars, walletVars>>

\* A statement of verifyDepositAndActivatePackage after its reads throws (the
\* database or the network fails): the catch block rethrows the error, and what
\* was written before stays written.
VerifyFail(p) ==
    /\ fundCalls[p].op = "verifyDeposit"
    /\ fundCalls[p].pc \in {"direct", "unilevel", "mark", "entry", "user", "activation",
                            "summary"}
    /\ fundCalls' = [fundCalls EXCEPT ![p] =
           FundDone("verifyDeposit", "MongoError", fundCalls[p].depositId)]
    /\ UNCHANGED <<offlineDeposits, cryptoDeposits, pkg, ledger, wallets, now, payoutRun,
                   placeVars, walletVars>>

\* The handler's answer has been sent.
FundReturn(p) ==
    /\ fundCalls[p].pc = "done"
    /\ fundCalls' = [fundCalls EXCEPT ![p] = IdleFund]
    /\ UNCHANGED <<offlineDeposits, cryptoDeposits, pkg, ledger, wallets, now, payoutRun,
                   placeVars, walletVars>>

-----------------------------------------------------------------------------
(* Transfer OTP and transfers (wallet/wallet.service.ts) *)

NoTxBuffer == [wallets |-> <<>>, ledger |-> <<>>, otps |-> <<>>]

IdleWallet ==
    [op |-> "idle", pc |-> "idle", err |-> "", reason |-> "", senderId |-> Null,
     recipientId |-> Null, amount |-> 0, transactionId |-> NoTx,
     entryId |-> 0, snapshot |-> <<>>, tx |-> NoTxBuffer, wasLocked |-> FALSE,
     windowElapsed |-> FALSE]

\* A call that has ended: what it threw ("OK" when nothing), with the tag of
\* the check that failed, and the member it was for
WalletDone(op, err, reason, senderId) ==
    [IdleWallet EXCEPT !.op = op, !.pc = "done", !.err = err, !.reason = reason,
                       !.senderId = senderId]

\* The documents an open transaction has written: no other writer gets at
\* them before the transaction ends.
TxWallets(p) == DOMAIN walletCalls[p].tx.wallets
TxUsers(p) == DOMAIN walletCalls[p].tx.otps
WalletHeld(owner) == \E q \in Procs : owner \in TxWallets(q)
UserHeld(u) == \E q \in Procs : u \in TxUsers(q)

\* generateAndSendTransferOtp rejecting a request only once the counter is
\* above the limit
GenerateOtpDecisionOffByOne(userId) ==
    IF ~Exists(userId) THEN "NotFoundError"
    ELSE LET user == otps[userId]
             otpRequestCount ==
                 IF user.otpRequestTimestamp # NoTime
                    /\ user.otpRequestTimestamp < now - HOUR
                 THEN 0 ELSE user.otpRequestCount
         IN  IF otpRequestCount > MAX_OTP_REQUESTS THEN "ValidationError" ELSE "OK"

\* generateAndSendTransferOtp; code is the number drawn.
GenerateOtpDecision(userId) ==
    IF ~Exists(userId) THEN "NotFoundError"
    ELSE LET user == otps[userId]
             otpRequestCount ==
                 IF user.otpRequestTimestamp # NoTime
                    /\ user.otpRequestTimestamp < now - HOUR
                 THEN 0 ELSE user.otpRequestCount
         IN  IF otpRequestCount >= MAX_OTP_REQUESTS THEN "ValidationError" ELSE "OK"

\* History: the OTPs issued to userId, each within one hour of the one issued
\* before it, once one more is issued now
NextOtpRun(userId) ==
    LET run == otpRun[userId]
    IN  [otpRun EXCEPT ![userId] =
            [issued |-> IF run.lastAt # NoTime /\ now - run.lastAt <= HOUR
                        THEN run.issued + 1 ELSE 1,
             lastAt |-> now]]

GenerateAndSendTransferOtp(p, userId, code) ==
    /\ walletCalls[p].pc = "idle"
    /\ ~UserHeld(userId)
    /\ LET err == GenerateOtpDecision(userId)
       IN  /\ walletCalls' = [walletCalls EXCEPT ![p] =
                  WalletDone("generateAndSendTransferOtp", err, "", userId)]
           /\ IF err = "OK"
              THEN LET user == otps[userId]
                       otpRequestCount ==
                           IF user.otpRequestTimestamp # NoTime
                              /\ user.otpRequestTimestamp < now - HOUR
                           THEN 0 ELSE user.otpRequestCount
                   IN  otps' = [otps EXCEPT ![userId] =
                           [@ EXCEPT !.otp = code, !.otpExpires = now + OTP_TTL,
                                     !.otpRequestCount = otpRequestCount + 1,
                                     !.otpRequestTimestamp = now]]
              ELSE UNCHANGED otps
           /\ otpRun' = IF err = "OK" THEN NextOtpRun(userId) ELSE otpRun
    /\ UNCHANGED <<kyc, txSeq, mismatchRun, ledger, wallets, now, payoutRun, placeVars, fundVars>>

\* requestLoginOtp (auth/auth.service.ts) for the account of userId, found by
\* its email; isEmailVerified is the flag stored on it.  The OTP is written to
\* the same otp and otpExpires fields; no request counter is read or written.
RequestLoginOtp(p, userId, isEmailVerified, code) ==
    /\ walletCalls[p].pc = "idle"
    /\ ~UserHeld(userId)
    /\ LET err == IF ~Exists(userId) THEN "NotFoundError"
                  ELSE IF ~isEmailVerified THEN "AuthorizationError"
                  ELSE "OK"
       IN  /\ walletCalls' = [walletCalls EXCEPT ![p] =
                  WalletDone("requestLoginOtp", err, "", userId)]
           /\ otps' = IF err = "OK"
                      THEN [otps EXCEPT ![userId] =
                               [@ EXCEPT !.otp = code, !.otpExpires = now + OTP_TTL]]
                      ELSE otps
    /\ UNCHANGED <<kyc, txSeq, mismatchRun, otpRun, ledger, wallets, now, payoutRun,
                   placeVars, fundVars>>

\* executeTransfer with the OTP compared before its expiry is looked at
TransferDecisionComparesFirst(senderId, recipientId, amount, otp) ==
    IF senderId = recipientId THEN [err |-> "ValidationError", reason |-> "self"]
    ELSE IF amount <= 0 THEN [err |-> "ValidationError", reason |-> "amount"]
    ELSE IF ~Exists(senderId) THEN [err |-> "NotFoundError", reason |-> "sender"]
    ELSE IF ~Exists(recipientId) THEN [err |-> "NotFoundError", reason |-> "recipient"]
    ELSE IF ~wallets[senderId].exists THEN [err |-> "NotFoundError", reason |-> "wallet"]
    ELSE IF otps[senderId].otpLockoutExpires # NoTime
            /\ now < otps[senderId].otpLockoutExpires
    THEN [err |-> "AuthorizationError", reason |-> "lockout"]
    ELSE IF otps[senderId].otp = NoOtp \/ otps[senderId].otpExpires = NoTime
    THEN [err |-> "AuthorizationError", reason |-> "no otp"]
    ELSE IF otp # otps[senderId].otp
    THEN [err |-> "AuthorizationError", reason |-> "mismatch"]
    ELSE IF now > otps[senderId].otpExpires
    THEN [err |-> "AuthorizationError", reason |-> "expired"]
    ELSE IF wallets[senderId].availableToWithdraw < amount
    THEN [err |-> "ValidationError", reason |-> "funds"]
    ELSE [err |-> "OK", reason |-> ""]

\* executeTransfer, lines 126 to 159: the first check that fails, as the error
\* thrown and a tag that tells the checks apart; "OK" when none fails.
TransferDecision(senderId, recipientId, amount, otp) ==
    IF senderId = recipientId THEN [err |-> "ValidationError", reason |-> "self"]
    ELSE IF amount <= 0 THEN [err |-> "ValidationError", reason |-> "amount"]
    ELSE IF ~Exists(senderId) THEN [err |-> "NotFoundError", reason |-> "sender"]
    ELSE IF ~Exists(recipientId) THEN [err |-> "NotFoundError", reason |-> "recipient"]
    ELSE IF ~wallets[senderId].exists THEN [err |-> "NotFoundError", reason |-> "wallet"]
    ELSE IF otps[senderId].otpLockoutExpires # NoTime
            /\ now < otps[senderId].otpLockoutExpires
    THEN [err |-> "AuthorizationError", reason |-> "lockout"]
    ELSE IF otps[senderId].otp = NoOtp \/ otps[senderId].otpExpires = NoTime
    THEN [err |-> "AuthorizationError", reason |-> "no otp"]
    ELSE IF now > otps[senderId].otpExpires
    THEN [err |-> "AuthorizationError", reason |-> "expired"]
    ELSE IF otp # otps[senderId].otp
    THEN [err |-> "AuthorizationError", reason |-> "mismatch"]
    ELSE IF wallets[senderId].availableToWithdraw < amount
    THEN [err |-> "ValidationError", reason |-> "funds"]
    ELSE [err |-> "OK", reason |-> ""]

\* History: was the sender, by its run of mismatch failures, inside the hour
\* after the fifth?
InLockoutHour(senderId) ==
    /\ senderId \in UserIds
    /\ mismatchRun[senderId].count >= MAX_FAILED_OTP
    /\ now < mismatchRun[senderId].fifthAt + HOUR

\* History: has the hour after the sender's fifth consecutive mismatch failure
\* gone by, with no executeTransfer of the sender answered since?
LockoutWindowElapsed(senderId) ==
    /\ senderId \in UserIds
    /\ mismatchRun[senderId].count >= MAX_FAILED_OTP
    /\ now >= mismatchRun[senderId].fifthAt + HOUR

\* History: the sender's run of consecutive mismatch failures after one more
\* executeTransfer of the sender has been answered at its checks.  A call that
\* does not fail on the OTP comparison ends a run shorter than five; a run of
\* five stands for the hour that follows.
NextMismatchRun(senderId, reason) ==
    IF senderId \notin UserIds THEN mismatchRun
    ELSE LET run == mismatchRun[senderId]
         IN  IF InLockoutHour(senderId) THEN mismatchRun
             ELSE IF reason # "mismatch"
             THEN [mismatchRun EXCEPT ![senderId] = [count |-> 0, fifthAt |-> NoTime]]
             ELSE IF run.count >= MAX_FAILED_OTP
             THEN [mismatchRun EXCEPT ![senderId] = [count |-> 1, fifthAt |-> NoTime]]
             ELSE [mismatchRun EXCEPT ![senderId] =
                      [count |-> run.count + 1,
                       fifthAt |-> IF run.count + 1 = MAX_FAILED_OTP THEN now
                                   ELSE NoTime]]

\* executeTransfer up to the insufficient-funds check.  The reads are the
\* transaction's snapshot.  A check that fails ends the call, except the OTP
\* mismatch, whose counter is first written inside the transaction.
TransferCheck(p, senderId, recipientId, amount, otp) ==
    /\ walletCalls[p].pc = "idle"
    /\ txSeq < MaxTransfers
    /\ LET d == TransferDecision(senderId, recipientId, amount, otp)
           c == [IdleWallet EXCEPT !.op = "executeTransfer", !.senderId = senderId,
                                   !.recipientId = recipientId, !.amount = amount,
                                   !.wasLocked = InLockoutHour(senderId),
                                   !.windowElapsed = LockoutWindowElapsed(senderId)]
       IN  /\ walletCalls' = [walletCalls EXCEPT ![p] =
                  IF d.err = "OK"
                  THEN [c EXCEPT !.pc = "debit", !.transactionId = txSeq + 1,
                                 !.snapshot = [wallets |-> wallets,
                                               otp |-> otps[senderId]]]
                  ELSE IF d.reason = "mismatch"
                  THEN [c EXCEPT !.pc = "mismatch", !.err = d.err, !.reason = d.reason,
                                 !.snapshot = [wallets |-> wallets,
                                               otp |-> otps[senderId]]]
                  ELSE [WalletDone("executeTransfer", d.err, d.reason, senderId)
                           EXCEPT !.wasLocked = InLockoutHour(senderId),
                                  !.windowElapsed = LockoutWindowElapsed(senderId)]]
           /\ txSeq' = IF d.err = "OK" THEN txSeq + 1 ELSE txSeq
           /\ mismatchRun' = NextMismatchRun(senderId, d.reason)
    /\ UNCHANGED <<kyc, otps, otpRun, ledger, wallets, now, payoutRun, placeVars, fundVars>>

\* A catch block that ends the session without aborting on a server that has
\* applied the transaction's balance writes: they stay.
abortTransactionKeepsBalances(c) ==
    [wallets |-> [o \in WalletOwners |->
                     IF o \in DOMAIN c.tx.wallets THEN c.tx.wallets[o] ELSE wallets[o]],
     ledger |-> ledger, otps |-> otps]

\* An abort that leaves the sender's user document as the transaction wrote
\* it: the failed-attempt counter and the lockout stay.
abortTransactionKeepsUser(c) ==
    [wallets |-> wallets, ledger |-> ledger,
     otps |-> [u \in UserIds |->
                  IF u \in DOMAIN c.tx.otps THEN c.tx.otps[u] ELSE otps[u]]]

\* session.abortTransaction() in the catch block: the transaction's writes are
\* dropped, the store is as it was.
abortTransaction(c) ==
    [wallets |-> wallets, ledger |-> ledger, otps |-> otps]

\* session.commitTransaction(): the transaction's writes reach the store.
commitTransaction(c) ==
    [wallets |-> [o \in WalletOwners |->
                     IF o \in DOMAIN c.tx.wallets THEN c.tx.wallets[o] ELSE wallets[o]],
     ledger |-> ledger \o c.tx.ledger,
     otps |-> [u \in UserIds |->
                  IF u \in DOMAIN c.tx.otps THEN c.tx.otps[u] ELSE otps[u]]]

\* The call of p ends with error err, its transaction aborted.
AbortTransfer(p, err, reason) ==
    LET store == abortTransaction(walletCalls[p])
    IN  /\ wallets' = store.wallets
        /\ ledger' = store.ledger
        /\ otps' = store.otps
        /\ walletCalls' = [walletCalls EXCEPT ![p] =
               [WalletDone(@.op, err, reason, @.senderId) EXCEPT
                   !.wasLocked = walletCalls[p].wasLocked,
                   !.windowElapsed = walletCalls[p].windowElapsed]]

\* A write inside the transaction meets a document that was written since the
\* transaction's snapshot, or that another open transaction has written.
WriteConflictOnWallet(p, owner) ==
    \/ wallets[owner] # walletCalls[p].snapshot.wallets[owner]
    \/ \E q \in Procs \ {p} : owner \in TxWallets(q)

WriteConflictOnUser(p, u) ==
    \/ otps[u] # walletCalls[p].snapshot.otp
    \/ \E q \in Procs \ {p} : u \in TxUsers(q)

\* executeTransfer, lines 150 to 157 and the catch block: the failed-attempt
\* counter, and the lockout at five, are saved with the session; the throw that
\* follows aborts the transaction.
TransferMismatch(p) ==
    /\ walletCalls[p].op = "executeTransfer"
    /\ walletCalls[p].pc = "mismatch"
    /\ LET c == walletCalls[p]
           failedOtpAttempts == c.snapshot.otp.failedOtpAttempts + 1
           sender == [c.snapshot.otp EXCEPT
                         !.failedOtpAttempts = failedOtpAttempts,
                         !.otpLockoutExpires =
                             IF failedOtpAttempts >= MAX_FAILED_OTP THEN now + HOUR ELSE @]
           written == [c EXCEPT !.tx.otps = (c.senderId :> sender)]
           store == abortTransaction(written)
       IN  /\ wallets' = store.wallets
           /\ ledger' = store.ledger
           /\ otps' = store.otps
           /\ walletCalls' = [walletCalls EXCEPT ![p] =
                  [WalletDone(c.op, IF WriteConflictOnUser(p, c.senderId)
                                    THEN "WriteConflict" ELSE c.err,
                              c.reason, c.senderId) EXCEPT !.wasLocked = c.wasLocked,
                                                           !.windowElapsed = c.windowElapsed]]
    /\ UNCHANGED <<kyc, txSeq, mismatchRun, otpRun, now, payoutRun, placeVars, fundVars>>

\* senderWallet.availableToWithdraw -= amount; senderWallet.save({ session })
TransferDebit(p) ==
    /\ walletCalls[p].op = "executeTransfer"
    /\ walletCalls[p].pc = "debit"
    /\ LET c == walletCalls[p]
           senderWallet == c.snapshot.wallets[c.senderId]
       IN  IF WriteConflictOnWallet(p, c.senderId)
           THEN AbortTransfer(p, "WriteConflict", "conflict")
           ELSE /\ walletCalls' = [walletCalls EXCEPT ![p] =
                       [c EXCEPT !.pc = "credit",
                                 !.tx.wallets = (c.senderId :>
                                     [senderWallet EXCEPT !.availableToWithdraw =
                                                              @ - c.amount])]]
                /\ UNCHANGED <<wallets, ledger, otps>>
    /\ UNCHANGED <<kyc, txSeq, mismatchRun, otpRun, now, payoutRun, placeVars, fundVars>>

\* WalletSummary.updateOne({ userId: recipientId }, { $inc: { availableToWithdraw:
\* amount, lifetimeEarnings: amount } }, { upsert: true, session })
TransferCredit(p) ==
    /\ walletCalls[p].op = "executeTransfer"
    /\ walletCalls[p].pc = "credit"
    /\ LET c == walletCalls[p]
       IN  IF WriteConflictOnWallet(p, c.recipientId)
           THEN AbortTransfer(p, "WriteConflict", "conflict")
           ELSE /\ walletCalls' = [walletCalls EXCEPT ![p] =
                       [c EXCEPT !.pc = "ledgerOut",
                                 !.tx.wallets = (c.recipientId :>
                                     IncWallet(c.snapshot.wallets, c.recipientId,
                                               c.amount, c.amount)[c.recipientId])
                                     @@ @]]
                /\ UNCHANGED <<wallets, ledger, otps>>
    /\ UNCHANGED <<kyc, txSeq, mismatchRun, otpRun, now, payoutRun, placeVars, fundVars>>

\* senderLedger.save({ session })
TransferLedgerOut(p) ==
    /\ walletCalls[p].op = "executeTransfer"
    /\ walletCalls[p].pc = "ledgerOut"
    /\ LET c == walletCalls[p]
       IN  walletCalls' = [walletCalls EXCEPT ![p] =
               [c EXCEPT !.pc = "ledgerIn",
                         !.tx.ledger = Append(@,
                             LedgerEntry(c.senderId, "TRANSFER_OUT", 0 - c.amount, "POSTED",
                                         NoDeposit, Null, NoLevel, c.transactionId))]]
    /\ UNCHANGED <<kyc, otps, txSeq, mismatchRun, otpRun, ledger, wallets, now, payoutRun,
                   placeVars, fundVars>>

\* receiverLedger.save({ session })
TransferLedgerIn(p) ==
    /\ walletCalls[p].op = "executeTransfer"
    /\ walletCalls[p].pc = "ledgerIn"
    /\ LET c == walletCalls[p]
       IN  walletCalls' = [walletCalls EXCEPT ![p] =
               [c EXCEPT !.pc = "clearOtp",
                         !.tx.ledger = Append(@,
                             LedgerEntry(c.recipientId, "TRANSFER_IN", c.amount, "POSTED",
                                         NoDeposit, Null, NoLevel, c.transactionId))]]
    /\ UNCHANGED <<kyc, otps, txSeq, mismatchRun, otpRun, ledger, wallets, now, payoutRun,
                   placeVars, fundVars>>

\* The sender's save after a transfer that leaves otp and otpExpires in place
TransferClearOtpKeepsCode(p) ==
    /\ walletCalls[p].op = "executeTransfer"
    /\ walletCalls[p].pc = "clearOtp"
    /\ LET c == walletCalls[p]
       IN  IF WriteConflictOnUser(p, c.senderId)
           THEN AbortTransfer(p, "WriteConflict", "conflict")
           ELSE /\ walletCalls' = [walletCalls EXCEPT ![p] =
                       [c EXCEPT !.pc = "commit",
                                 !.tx.otps = (c.senderId :>
                                     [c.snapshot.otp EXCEPT
                                         !.failedOtpAttempts = 0,
                                         !.otpLockoutExpires = NoTime])]]
                /\ UNCHANGED <<wallets, ledger, otps>>
    /\ UNCHANGED <<kyc, txSeq, mismatchRun, otpRun, now, payoutRun, placeVars, fundVars>>

\* sender.otp = undefined; sender.otpExpires = undefined;
\* sender.failedOtpAttempts = 0; sender.otpLockoutExpires = undefined;
\* sender.save({ session })
TransferClearOtp(p) ==
    /\ walletCalls[p].op = "executeTransfer"
    /\ walletCalls[p].pc = "clearOtp"
    /\ LET c == walletCalls[p]
       IN  IF WriteConflictOnUser(p, c.senderId)
           THEN AbortTransfer(p, "WriteConflict", "conflict")
           ELSE /\ walletCalls' = [walletCalls EXCEPT ![p] =
                       [c EXCEPT !.pc = "commit",
                                 !.tx.otps = (c.senderId :>
                                     [c.snapshot.otp EXCEPT
                                         !.otp = NoOtp, !.otpExpires = NoTime,
                                         !.failedOtpAttempts = 0,
                                         !.otpLockoutExpires = NoTime])]]
                /\ UNCHANGED <<wallets, ledger, otps>>
    /\ UNCHANGED <<kyc, txSeq, mismatchRun, otpRun, now, payoutRun, placeVars, fundVars>>

\* session.commitTransaction(); return { transactionId }
TransferCommit(p) ==
    /\ walletCalls[p].op = "executeTransfer"
    /\ walletCalls[p].pc = "commit"
    /\ LET c == walletCalls[p]
           store == commitTransaction(c)
       IN  /\ wallets' = store.wallets
           /\ ledger' = store.ledger
           /\ otps' = store.otps
           /\ walletCalls' = [walletCalls EXCEPT ![p] =
                  [WalletDone(c.op, "OK", "", c.senderId) EXCEPT
                      !.recipientId = c.recipientId, !.amount = c.amount,
                      !.transactionId = c.transactionId, !.wasLocked = c.wasLocked,
                      !.windowElapsed = c.windowElapsed]]
    /\ UNCHANGED <<kyc, txSeq, mismatchRun, otpRun, now, payoutRun, placeVars, fundVars>>

\* A statement after the sender's debit throws (the database or the network
\* fails): the catch block aborts the transaction.
TransferFail(p) ==
    /\ walletCalls[p].op = "executeTransfer"
    /\ walletCalls[p].pc \in {"credit", "ledgerOut", "ledgerIn", "clearOtp", "commit"}
    /\ AbortTransfer(p, "MongoError", "failure")
    /\ UNCHANGED <<kyc, txSeq, mismatchRun, otpRun, now, payoutRun, placeVars, fundVars>>

-----------------------------------------------------------------------------
(* Withdrawals (wallet/wallet.service.ts, admin/admin.service.ts) *)

\* createWithdrawalRequest without the KYC check
WithdrawalDecisionNoKyc(userId, amount) ==
    IF ~Exists(userId) THEN "NotFoundError"
    ELSE IF ~wallets[userId].exists THEN "NotFoundError"
    ELSE IF amount <= 0 THEN "ValidationError"
    ELSE IF amount > wallets[userId].availableToWithdraw THEN "ValidationError"
    ELSE "OK"

\* createWithdrawalRequest, lines 54 to 61
WithdrawalDecision(userId, amount) ==
    IF ~Exists(userId) THEN "NotFoundError"
    ELSE IF ~wallets[userId].exists THEN "NotFoundError"
    ELSE IF kyc[userId] # "VERIFIED" THEN "AuthorizationError"
    ELSE IF amount <= 0 THEN "ValidationError"
    ELSE IF amount > wallets[userId].availableToWithdraw THEN "ValidationError"
    ELSE "OK"

\* The withdrawal requests made so far, those in flight counted
Withdrawals ==
    Cardinality({i \in DOMAIN ledger : ledger[i].type = "WITHDRAWAL_REQUEST"})
    + Cardinality({q \in Procs : walletCalls[q].pc = "entry"})

CreateWithdrawalRequest(p, userId, amount) ==
    /\ walletCalls[p].pc = "idle"
    /\ Withdrawals < MaxWithdrawals
    /\ LET err == WithdrawalDecision(userId, amount)
       IN  walletCalls' = [walletCalls EXCEPT ![p] =
               IF err = "OK"
               THEN [IdleWallet EXCEPT !.op = "createWithdrawalRequest", !.pc = "entry",
                                       !.senderId = userId, !.amount = amount,
                                       !.snapshot = [summary |-> wallets[userId]]]
               ELSE WalletDone("createWithdrawalRequest", err, "", userId)]
    /\ UNCHANGED <<kyc, otps, txSeq, mismatchRun, otpRun, ledger, wallets, now, payoutRun,
                   placeVars, fundVars>>

\* ledgerEntry.save(): the PENDING WITHDRAWAL_REQUEST of -amount
WithdrawalEntry(p) ==
    /\ walletCalls[p].op = "createWithdrawalRequest"
    /\ walletCalls[p].pc = "entry"
    /\ LET c == walletCalls[p]
       IN  /\ ledger' = Append(ledger,
                  LedgerEntry(c.senderId, "WITHDRAWAL_REQUEST", 0 - c.amount, "PENDING",
                              NoDeposit, Null, NoLevel, NoTx))
           /\ walletCalls' = [walletCalls EXCEPT ![p] =
                  [c EXCEPT !.pc = "summary", !.entryId = Len(ledger) + 1]]
    /\ UNCHANGED <<kyc, otps, txSeq, mismatchRun, otpRun, wallets, now, payoutRun, placeVars, fundVars>>

\* summary.availableToWithdraw -= amount; summary.save(): the value computed
\* from the summary as it was read is written.
WithdrawalDebit(p) ==
    /\ walletCalls[p].op = "createWithdrawalRequest"
    /\ walletCalls[p].pc = "summary"
    /\ ~WalletHeld(walletCalls[p].senderId)
    /\ LET c == walletCalls[p]
       IN  /\ wallets' = [wallets EXCEPT ![c.senderId].availableToWithdraw =
                             c.snapshot.summary.availableToWithdraw - c.amount]
           /\ walletCalls' = [walletCalls EXCEPT ![p] =
                  [WalletDone(c.op, "OK", "", c.senderId) EXCEPT !.entryId = c.entryId]]
    /\ UNCHANGED <<kyc, otps, txSeq, mismatchRun, otpRun, ledger, now, payoutRun, placeVars, fundVars>>

\* approveWithdrawal and rejectWithdrawal, the lookup: the entry must be a
\* PENDING WITHDRAWAL_REQUEST.
ResolutionDecision(withdrawalId) ==
    IF withdrawalId \notin DOMAIN ledger THEN "NotFoundError"
    ELSE IF ledger[withdrawalId].type # "WITHDRAWAL_REQUEST" THEN "NotFoundError"
    ELSE IF ledger[withdrawalId].status # "PENDING" THEN "ConflictError"
    ELSE "OK"

ResolveBegin(p, op, withdrawalId, next) ==
    /\ walletCalls[p].pc = "idle"
    /\ LET err == ResolutionDecision(withdrawalId)
       IN  walletCalls' = [walletCalls EXCEPT ![p] =
               IF err = "OK"
               THEN [IdleWallet EXCEPT !.op = op, !.pc = next, !.entryId = withdrawalId,
                                       !.senderId = ledger[withdrawalId].userId,
                                       !.amount = ledger[withdrawalId].amount]
               ELSE WalletDone(op, err, "", Null)]
    /\ UNCHANGED <<kyc, otps, txSeq, mismatchRun, otpRun, ledger, wallets, now, payoutRun,
                   placeVars, fundVars>>

ApproveWithdrawal(p, withdrawalId) ==
    ResolveBegin(p, "approveWithdrawal", withdrawalId, "paid")

\* rejectWithdrawal with a reason; without one it is a ValidationError.
RejectWithdrawal(p, withdrawalId, hasReason) ==
    IF hasReason
    THEN ResolveBegin(p, "rejectWithdrawal", withdrawalId, "refund")
    ELSE /\ walletCalls[p].pc = "idle"
         /\ walletCalls' = [walletCalls EXCEPT ![p] =
                WalletDone("rejectWithdrawal", "ValidationError", "", Null)]
         /\ UNCHANGED <<kyc, otps, txSeq, mismatchRun, otpRun, ledger, wallets, now, payoutRun,
                        placeVars, fundVars>>

\* withdrawal.status = 'PAID'; withdrawal.save()
ApproveSave(p) ==
    /\ walletCalls[p].op = "approveWithdrawal"
    /\ walletCalls[p].pc = "paid"
    /\ ledger' = [ledger EXCEPT ![walletCalls[p].entryId].status = "PAID"]
    /\ walletCalls' = [walletCalls EXCEPT ![p].pc = "done", ![p].err = "OK"]
    /\ UNCHANGED <<kyc, otps, txSeq, mismatchRun, otpRun, wallets, now, payoutRun, placeVars, fundVars>>

\* A rejection that leaves the balance as the request left it
RejectRefundNothing(p) ==
    /\ walletCalls[p].op = "rejectWithdrawal"
    /\ walletCalls[p].pc = "refund"
    /\ walletCalls' = [walletCalls EXCEPT ![p].pc = "rejected"]
    /\ UNCHANGED <<kyc, otps, txSeq, mismatchRun, otpRun, ledger, wallets, now, payoutRun, placeVars,
                   fundVars>>

\* WalletSummary.updateOne({ userId }, { $inc: { availableToWithdraw:
\* -withdrawal.amount } }): no upsert
RejectRefund(p) ==
    /\ walletCalls[p].op = "rejectWithdrawal"
    /\ walletCalls[p].pc = "refund"
    /\ ~WalletHeld(walletCalls[p].senderId)
    /\ LET c == walletCalls[p]
       IN  wallets' = IF wallets[c.senderId].exists
                      THEN IncWallet(wallets, c.senderId, 0 - c.amount, 0)
                      ELSE wallets
    /\ walletCalls' = [walletCalls EXCEPT ![p].pc = "rejected"]
    /\ UNCHANGED <<kyc, otps, txSeq, mismatchRun, otpRun, ledger, now, payoutRun, placeVars, fundVars>>

\* withdrawal.status = 'REJECTED'; withdrawal.save()
RejectSave(p) ==
    /\ walletCalls[p].op = "rejectWithdrawal"
    /\ walletCalls[p].pc = "rejected"
    /\ ledger' = [ledger EXCEPT ![walletCalls[p].entryId].status = "REJECTED"]
    /\ walletCalls' = [walletCalls EXCEPT ![p].pc = "done", ![p].err = "OK"]
    /\ UNCHANGED <<kyc, otps, txSeq, mismatchRun, otpRun, wallets, now, payoutRun, placeVars, fundVars>>

\* The handler's answer has been sent.
WalletReturn(p) ==
    /\ walletCalls[p].pc = "done"
    /\ walletCalls' = [walletCalls EXCEPT ![p] = IdleWallet]
    /\ UNCHANGED <<kyc, otps, txSeq, mismatchRun, otpRun, ledger, wallets, now, payoutRun,
                   placeVars, fundVars>>


-----------------------------------------------------------------------------
(* config/payouts and calculateMonthlyPayouts: the monthly report.         *)
(* Rates are whole percents.  The dates of the report are counted in parts *)
(* of a day from the start of the first month of MonthDays; one part       *)
(* stands for the millisecond of the code's dates, so that the end of a    *)
(* month is one part before the start of the next.  A payout is kept as an *)
(* exact fraction: `hundredths' hundredths of a USDT over `over'.          *)

DayParts == 4

\* The months the report knows, by their number of days
MonthDays == <<31, 28, 31, 30>>

Months == 1..Len(MonthDays)

RECURSIVE DaysBefore(_)
DaysBefore(m) == IF m = 1 THEN 0 ELSE DaysBefore(m - 1) + MonthDays[m - 1]

startOfMonth(monthDate) == DaysBefore(monthDate) * DayParts

endOfMonth(monthDate) == (DaysBefore(monthDate) + MonthDays[monthDate]) * DayParts - 1

getDaysInMonth(monthDate) == MonthDays[monthDate]

\* date-fns differenceInDays: the number of full days from dateRight to
\* dateLeft, truncated toward zero
differenceInDays(dateLeft, dateRight) ==
    IF dateLeft >= dateRight THEN (dateLeft - dateRight) \div DayParts
    ELSE 0 - ((dateRight - dateLeft) \div DayParts)

\* getTieredROIRate with every threshold excluded from its own tier
getTieredROIRateStrict(packageUSD) ==
    IF packageUSD > 10000 THEN 16
    ELSE IF packageUSD > 5000 THEN 14
    ELSE IF packageUSD > 2500 THEN 12
    ELSE IF packageUSD > 1000 THEN 10
    ELSE IF packageUSD > 500 THEN 8
    ELSE IF packageUSD > 300 THEN 7
    ELSE IF packageUSD > 100 THEN 6
    ELSE IF packageUSD > 50 THEN 5
    ELSE 0

\* getTieredROIRate, in percent
getTieredROIRate(packageUSD) ==
    IF packageUSD >= 10000 THEN 16
    ELSE IF packageUSD >= 5000 THEN 14
    ELSE IF packageUSD >= 2500 THEN 12
    ELSE IF packageUSD >= 1000 THEN 10
    ELSE IF packageUSD >= 500 THEN 8
    ELSE IF packageUSD >= 300 THEN 7
    ELSE IF packageUSD >= 100 THEN 6
    ELSE IF packageUSD >= 50 THEN 5
    ELSE 0

\* The days of the month a member who joined in it is paid for, without the
\* day of joining
ActiveDaysExclusive(endDate, dateJoined) == differenceInDays(endDate, dateJoined)

\* The days of the month a member who joined in it is paid for
ActiveDays(endDate, dateJoined) == differenceInDays(endDate, dateJoined) + 1

\* roiPayout of one active user in the report of monthDate
RoiPayout(packageUSD, dateJoined, monthDate) ==
    LET startDate == startOfMonth(monthDate)
        endDate == endOfMonth(monthDate)
        totalDaysInMonth == getDaysInMonth(monthDate)
        roiRate == getTieredROIRate(packageUSD)
    IN  IF dateJoined >= startDate /\ dateJoined <= endDate
        THEN [hundredths |-> packageUSD * roiRate * ActiveDays(endDate, dateJoined),
              over |-> totalDaysInMonth]
        ELSE [hundredths |-> packageUSD * roiRate, over |-> 1]

\* No report is being computed
NoPayoutRun ==
    [pc |-> "idle", monthDate |-> 0, packageUSD |-> 0, dateJoined |-> 0, roiRate |-> 0,
     roiPayout |-> [hundredths |-> 0, over |-> 1]]

\* calculateMonthlyPayouts(monthDate), for one active user document read by
\* User.find: its packageUSD and dateJoined.  The report writes nothing; its
\* ROI part is kept in payoutRun.
CalculateMonthlyPayouts(monthDate, packageUSD, dateJoined) ==
    /\ payoutRun.pc = "idle"
    /\ payoutRun' = [pc |-> "done", monthDate |-> monthDate, packageUSD |-> packageUSD,
                     dateJoined |-> dateJoined,
                     roiRate |-> getTieredROIRate(packageUSD),
                     roiPayout |-> RoiPayout(packageUSD, dateJoined, monthDate)]
    /\ UNCHANGED <<now, placeVars, fundVars, walletVars, moneyVars>>

\* The report has been returned.
PayoutReturn ==
    /\ payoutRun.pc = "done"
    /\ payoutRun' = NoPayoutRun
    /\ UNCHANGED <<now, placeVars, fundVars, walletVars, moneyVars>>
-----------------------------------------------------------------------------
(* Requests *)

Emails == {1, 101, 102}
SponsorKeys == {Null, 1, RefCode(2), Ghost}
Designees == {Null, 2, 7}
Movers == {2, 7}
Queued == {13}
NewParents == {Null, 1, 3}
PlacementParents == {1, 3}
PlacingSponsors == {1, 2}
PlacedOrQueued == {7, 13, 14}
ChosenParents == {1, 2, 3, 7}

Depositors == {4}
LedgerDepositors == {3, 4}
DepositAmounts == {100}
InvoiceAmounts == {10, 100}
GatewayFinalStates == {"FAILED", "EXPIRED"}

Senders == {1, 4, Ghost}
OtpUsers == {1}
Withdrawers == {1, 2}
Recipients == {1, 2, Ghost}
TransferAmounts == {0, 10, 30}
OtpCodes == {1, 2}
GeneratedCodes == {1}
WalletSteps == {2}
OtpRequesters == {1, Ghost}
OtpSteps == {1, HOUR}
ChainDepositors == {1, 2, 3, MaxChain - 1, MaxChain}
ChainMovers == {1, 3}
ChainParents == {2}
DeleteTargets == {2, 3, 4, Ghost}
DeleteSponsors == {2, 4}
DeleteEmails == {101}
WithdrawalAmounts == {4, 10}
RootSponsorKeys == {Null, Root, 1}
RootDesignees == {Null, 2}
RootEmails == {1, 101, 102}
PayoutPackages ==
    {0, 49, 50, 99, 100, 299, 300, 499, 500, 999, 1000, 1200, 1999, 2000, 2499, 2500,
     4999, 5000, 9999, 10000, 20000}
JoinDates == 0..endOfMonth(Len(MonthDays))
PaidAmounts == {0, 100}
MovedMembers == {13, 14}
MoveParents == {1, 3}

-----------------------------------------------------------------------------
(* Initial states *)

\* The tree the placement handlers start from: member 1 under the company with
\* five children (members 2 to 6), member 2 with six (members 7 to 12), and
\* member 13, registered at time 1 under sponsor 1 and waiting to be placed.
InitialParent(u) ==
    IF u = 1 THEN Root ELSE IF u \in 2..6 THEN 1 ELSE 2

InitialUsers ==
    [u \in UserIds |->
        IF u <= 12
        THEN NewUserDoc(u, InitialParent(u), InitialParent(u), FALSE, NoDeadline)
        ELSE IF u = 13
        THEN NewUserDoc(13, 1, Null, FALSE, 1 + PLACEMENT_WINDOW)
        ELSE NoUser]

\* The tree the deposit and wallet handlers start from: a chain 1, 2, 3 under
\* the company, and member 4, sponsored by member 1 through a queued
\* registration at time 1 and moved under member 3 by updateUser.
FundingUsers ==
    [u \in UserIds |->
        IF u = 1 THEN NewUserDoc(1, Root, Root, FALSE, NoDeadline)
        ELSE IF u \in {2, 3} THEN NewUserDoc(u, u - 1, u - 1, FALSE, NoDeadline)
        ELSE IF u = 4 THEN NewUserDoc(4, 1, 3, FALSE, 1 + PLACEMENT_WINDOW)
        ELSE NoUser]

\* Everything but the tree, the clock and the books: no call is open.
InitCalls ==
    /\ placeCalls = [p \in Procs |-> IdlePlace]
    /\ fundCalls = [p \in Procs |-> IdleFund]
    /\ walletCalls = [p \in Procs |-> IdleWallet]
    /\ otps = [u \in UserIds |-> NoOtpDoc]
    /\ mismatchRun = [u \in UserIds |-> [count |-> 0, fifthAt |-> NoTime]]
    /\ otpRun = [u \in UserIds |-> [issued |-> 0, lastAt |-> NoTime]]
    /\ deletedUsers = {}
    /\ payoutRun = NoPayoutRun
    /\ txSeq = 0
    /\ cryptoDeposits = <<>>
    /\ now = 1

InitPlace ==
    /\ InitCalls
    /\ users = InitialUsers
    /\ userSeq = 13
    /\ pkg = [u \in UserIds |-> NoPackage]
    /\ kyc = [u \in UserIds |-> "NOT_SUBMITTED"]
    /\ offlineDeposits = <<>>
    /\ ledger = <<>>
    /\ wallets = [o \in WalletOwners |-> NoWallet]

\* The books after member 3's offline deposit of InitialDeposit has been
\* recorded and verified: the DIRECT bonus went to member 2, the level-1
\* UNILEVEL bonus to member 1.  Member 1 has passed KYC.
InitialDeposit == CHOOSE a \in DepositAmounts : TRUE

InitWallet ==
    /\ InitCalls
    /\ users = FundingUsers
    /\ userSeq = 4
    /\ pkg = [u \in UserIds |->
                 IF u = 3 THEN [packageUSD |-> InitialDeposit, isPackageActive |-> TRUE]
                 ELSE NoPackage]
    /\ kyc = [u \in UserIds |-> IF u = 1 THEN "VERIFIED" ELSE "NOT_SUBMITTED"]
    /\ offlineDeposits =
           <<[userId |-> 3, amountUSDT |-> InitialDeposit, status |-> "VERIFIED",
              verified |-> TRUE,
              lineageSnapshot |-> [originalSponsorId |-> 2, parentId |-> 2,
                                   unilevelUpline |-> <<1>>]]>>
    /\ ledger =
           <<LedgerEntry(3, "OFFLINE_DEPOSIT", InitialDeposit, "VERIFIED", 1, Null,
                         NoLevel, NoTx),
             LedgerEntry(2, "DIRECT", Pct(InitialDeposit, FIRST_DEPOSIT_DIRECT_BONUS_PCT),
                         "POSTED", 1, 3, NoLevel, NoTx),
             LedgerEntry(1, "UNILEVEL", Pct(InitialDeposit, UNILEVEL_PCTS[1]), "POSTED",
                         1, 3, 1, NoTx),
             LedgerEntry(3, "PACKAGE_ACTIVATION", InitialDeposit, "POSTED", 1, Null,
                         NoLevel, NoTx)>>
    /\ wallets =
           [o \in WalletOwners |->
               IF o = 1
               THEN [exists |-> TRUE,
                     availableToWithdraw |-> Pct(InitialDeposit, UNILEVEL_PCTS[1]),
                     lifetimeEarnings |-> Pct(InitialDeposit, UNILEVEL_PCTS[1])]
               ELSE IF o = 2
               THEN [exists |-> TRUE,
                     availableToWithdraw |->
                         Pct(InitialDeposit, FIRST_DEPOSIT_DIRECT_BONUS_PCT),
                     lifetimeEarnings |->
                         Pct(InitialDeposit, FIRST_DEPOSIT_DIRECT_BONUS_PCT)]
               ELSE IF o = 3
               THEN [exists |-> TRUE, availableToWithdraw |-> 0, lifetimeEarnings |-> 0]
               ELSE NoWallet]

-----------------------------------------------------------------------------
(* Specifications *)

\* The placement handlers, two requests at a time
NextPlace ==
    \/ \E p \in Procs, email \in Emails, sponsorKey \in SponsorKeys, designee \in Designees :
           CreateNewUserCheck(p, email, sponsorKey, designee)
    \/ \E p \in Procs : NewUserSave(p)
    \/ \E p \in Procs, userId \in Movers, newParentId \in NewParents :
           UpdateUserCheck(p, userId, newParentId)
    \/ \E p \in Procs : UpdateUserSave(p)
    \/ \E p \in Procs, newUserId \in Queued, placementParentId \in PlacementParents :
           PlaceUser(p, 1, newUserId, placementParentId)
    \/ \E p \in Procs : PlaceReturn(p)

SpecPlace == InitPlace /\ [][NextPlace]_vars

\* The placement queue: registrations that queue the member, and manual
\* placements before and after the 48-hour deadline
NextQueue ==
    \/ \E p \in Procs, email \in Emails, sponsorKey \in SponsorKeys :
           CreateNewUserQueuedCheck(p, email, sponsorKey)
    \/ \E p \in Procs : NewUserSave(p)
    \/ \E p \in Procs, sponsorId \in PlacingSponsors, newUserId \in PlacedOrQueued,
          placementParentId \in ChosenParents :
           PlaceUser(p, sponsorId, newUserId, placementParentId)
    \/ \E p \in Procs : PlaceReturn(p)
    \/ Advance(PLACEMENT_WINDOW \div 2, MaxTimeQueue)

SpecQueue == InitPlace /\ [][NextQueue]_vars

\* The deposit handlers, two requests at a time
NextFund ==
    \/ \E p \in Procs, userId \in Depositors, amountUSDT \in DepositAmounts :
           RecordDeposit(p, userId, amountUSDT)
    \/ \E p \in Procs, userId \in Depositors, amount \in InvoiceAmounts,
          gatewayOk \in BOOLEAN :
           CreateCryptoDepositInvoice(p, userId, amount, gatewayOk)
    \/ \E p \in Procs, depositId \in 1..MaxCrypto, status \in GatewayFinalStates :
           UpdateCryptoDepositStatus(p, depositId, status)
    \/ \E p \in Procs, depositId \in 1..MaxOffline : VerifyBegin(p, depositId, Root)
    \/ \E p \in Procs, depositId \in 1..MaxCrypto :
           ProcessBegin(p, depositId, PaymentId(depositId))
    \/ \E p \in Procs : AwardDirect(p)
    \/ \E p \in Procs : VerifyUnilevel(p)
    \/ \E p \in Procs : ProcessUnilevel(p)
    \/ \E p \in Procs : VerifyMark(p)
    \/ \E p \in Procs : ProcessMark(p)
    \/ \E p \in Procs : VerifyEntry(p)
    \/ \E p \in Procs : ActivatePackage(p)
    \/ \E p \in Procs : ActivationEntry(p)
    \/ \E p \in Procs : InitSummary(p)
    \/ \E p \in Procs : FundReturn(p)

SpecFund == InitWallet /\ [][NextFund]_vars

\* The transfer and withdrawal handlers, two requests at a time
NextWallet ==
    \/ \E p \in Procs, userId \in OtpUsers, code \in GeneratedCodes :
           /\ otps[userId].otpRequestCount < MaxOtpRequests
           /\ GenerateAndSendTransferOtp(p, userId, code)
    \/ \E p \in Procs, senderId \in Senders, recipientId \in Recipients,
          amount \in TransferAmounts, otp \in OtpCodes :
           TransferCheck(p, senderId, recipientId, amount, otp)
    \/ \E p \in Procs : TransferMismatch(p)
    \/ \E p \in Procs : TransferDebit(p)
    \/ \E p \in Procs : TransferCredit(p)
    \/ \E p \in Procs : TransferLedgerOut(p)
    \/ \E p \in Procs : TransferLedgerIn(p)
    \/ \E p \in Procs : TransferClearOtp(p)
    \/ \E p \in Procs : TransferCommit(p)
    \/ \E p \in Procs : TransferFail(p)
    \/ \E p \in Procs : WalletReturn(p)
    \/ \E d \in WalletSteps : Advance(d, MaxTimeWallet)

SpecWallet == InitWallet /\ [][NextWallet]_vars

\* Requests for a transfer OTP over a few hours
NextOtp ==
    \/ \E p \in Procs, userId \in OtpRequesters, code \in GeneratedCodes :
           GenerateAndSendTransferOtp(p, userId, code)
    \/ \E p \in Procs : WalletReturn(p)
    \/ \E d \in OtpSteps : Advance(d, MaxTimeOtp)

SpecOtp == InitWallet /\ [][NextOtp]_vars

\* No request is being served.
Quiet ==
    \A p \in Procs : /\ placeCalls[p].pc = "idle"
                     /\ fundCalls[p].pc = "idle"
                     /\ walletCalls[p].pc = "idle"

\* Every handler that moves money, one request after the other
NextLedger ==
    \/ Quiet /\ \E userId \in LedgerDepositors, amountUSDT \in DepositAmounts :
                    RecordDeposit(1, userId, amountUSDT)
    \/ Quiet /\ \E depositId \in 1..MaxOffline : VerifyBegin(1, depositId, Root)
    \/ AwardDirect(1)
    \/ VerifyUnilevel(1)
    \/ VerifyMark(1)
    \/ VerifyEntry(1)
    \/ ActivatePackage(1)
    \/ ActivationEntry(1)
    \/ InitSummary(1)
    \/ FundReturn(1)
    \/ Quiet /\ \E userId \in OtpUsers, code \in GeneratedCodes :
                    /\ otps[userId].otpRequestCount < MaxOtpRequests
                    /\ GenerateAndSendTransferOtp(1, userId, code)
    \/ Quiet /\ \E senderId \in OtpUsers, recipientId \in Recipients,
                    amount \in TransferAmounts, otp \in GeneratedCodes :
                    TransferCheck(1, senderId, recipientId, amount, otp)
    \/ TransferDebit(1)
    \/ TransferCredit(1)
    \/ TransferLedgerOut(1)
    \/ TransferLedgerIn(1)
    \/ TransferClearOtp(1)
    \/ TransferCommit(1)
    \/ TransferFail(1)
    \/ Quiet /\ \E userId \in Withdrawers, amount \in TransferAmounts :
                    CreateWithdrawalRequest(1, userId, amount)
    \/ WithdrawalEntry(1)
    \/ WithdrawalDebit(1)
    \/ Quiet /\ \E withdrawalId \in 1..(Len(ledger) + 1) :
                    ApproveWithdrawal(1, withdrawalId)
    \/ ApproveSave(1)
    \/ Quiet /\ \E withdrawalId \in 1..(Len(ledger) + 1), hasReason \in BOOLEAN :
                    RejectWithdrawal(1, withdrawalId, hasReason)
    \/ RejectRefund(1)
    \/ RejectSave(1)
    \/ WalletReturn(1)

SpecLedger == InitWallet /\ [][NextLedger]_vars

\* A chain under the company: member 1 under the root, member u under u - 1.
ChainUsers ==
    [u \in UserIds |->
        IF u = 1 THEN NewUserDoc(1, Root, Root, FALSE, NoDeadline)
        ELSE IF u <= MaxChain THEN NewUserDoc(u, u - 1, u - 1, FALSE, NoDeadline)
        ELSE NoUser]

InitChain ==
    /\ InitCalls
    /\ users = ChainUsers
    /\ userSeq = MaxChain
    /\ pkg = [u \in UserIds |-> NoPackage]
    /\ kyc = [u \in UserIds |-> "NOT_SUBMITTED"]
    /\ offlineDeposits = <<>>
    /\ ledger = <<>>
    /\ wallets = [o \in WalletOwners |-> NoWallet]

\* Deposits of members at every depth of the chain and parent changes by the
\* admin, one request after the other
NextUpline ==
    \/ Quiet /\ \E userId \in ChainDepositors, amountUSDT \in DepositAmounts :
                    RecordDeposit(1, userId, amountUSDT)
    \/ Quiet /\ \E depositId \in 1..MaxOffline : VerifyBegin(1, depositId, Root)
    \/ Quiet /\ \E userId \in ChainDepositors, amount \in DepositAmounts :
                    CreateCryptoDepositInvoice(1, userId, amount, TRUE)
    \/ Quiet /\ \E depositId \in 1..MaxCrypto :
                    ProcessBegin(1, depositId, PaymentId(depositId))
    \/ AwardDirect(1)
    \/ VerifyUnilevel(1)
    \/ ProcessUnilevel(1)
    \/ VerifyMark(1)
    \/ ProcessMark(1)
    \/ VerifyEntry(1)
    \/ ActivatePackage(1)
    \/ ActivationEntry(1)
    \/ InitSummary(1)
    \/ FundReturn(1)
    \/ Quiet /\ \E userId \in ChainMovers, newParentId \in ChainParents :
                    UpdateUserCheck(1, userId, newParentId)
    \/ UpdateUserSave(1)
    \/ PlaceReturn(1)

SpecUpline == InitChain /\ [][NextUpline]_vars

\* Deletions by the admin and registrations under the members being deleted,
\* two requests at a time
NextDelete ==
    \/ \E p \in Procs, email \in DeleteEmails, sponsorKey \in DeleteSponsors :
           CreateNewUserCheck(p, email, sponsorKey, Null)
    \/ \E p \in Procs : NewUserSave(p)
    \/ \E p \in Procs, userId \in DeleteTargets : DeleteUserCheck(p, userId)
    \/ \E p \in Procs : DeleteReadWallet(p)
    \/ \E p \in Procs : DeleteWallet(p)
    \/ \E p \in Procs : DeleteArchive(p)
    \/ \E p \in Procs : DeleteRemove(p)
    \/ \E p \in Procs : PlaceReturn(p)

SpecDelete == InitWallet /\ [][NextDelete]_vars

\* Withdrawal requests and their resolution by the admins, two requests at a
\* time
NextResolve ==
    \/ \E p \in Procs, userId \in Withdrawers, amount \in WithdrawalAmounts :
           CreateWithdrawalRequest(p, userId, amount)
    \/ \E p \in Procs : WithdrawalEntry(p)
    \/ \E p \in Procs : WithdrawalDebit(p)
    \/ \E p \in Procs, withdrawalId \in 1..(Len(ledger) + 1) :
           ApproveWithdrawal(p, withdrawalId)
    \/ \E p \in Procs : ApproveSave(p)
    \/ \E p \in Procs, withdrawalId \in 1..(Len(ledger) + 1), hasReason \in BOOLEAN :
           RejectWithdrawal(p, withdrawalId, hasReason)
    \/ \E p \in Procs : RejectRefund(p)
    \/ \E p \in Procs : RejectSave(p)
    \/ \E p \in Procs : WalletReturn(p)

SpecResolve == InitWallet /\ [][NextResolve]_vars

\* Parent changes by the admin on a queued member and on a member registered
\* under a designee, next to the registration and the manual placement, two
\* requests at a time
NextMove ==
    \/ \E p \in Procs : CreateNewUserCheck(p, 101, RefCode(2), 7)
    \/ \E p \in Procs : NewUserSave(p)
    \/ \E p \in Procs, userId \in MovedMembers, newParentId \in MoveParents :
           UpdateUserCheck(p, userId, newParentId)
    \/ \E p \in Procs : UpdateUserSave(p)
    \/ \E p \in Procs, placementParentId \in MoveParents :
           PlaceUser(p, 1, 13, placementParentId)
    \/ \E p \in Procs : PlaceReturn(p)

SpecMove == InitPlace /\ [][NextMove]_vars

\* A company with five direct children, one short of a member's cap: members
\* 1 to 5 under the root.
RootUsers ==
    [u \in UserIds |->
        IF u < directWidthCap THEN NewUserDoc(u, Root, Root, FALSE, NoDeadline)
        ELSE NoUser]

InitRoot ==
    /\ InitCalls
    /\ users = RootUsers
    /\ userSeq = directWidthCap - 1
    /\ pkg = [u \in UserIds |-> NoPackage]
    /\ kyc = [u \in UserIds |-> "NOT_SUBMITTED"]
    /\ offlineDeposits = <<>>
    /\ ledger = <<>>
    /\ wallets = [o \in WalletOwners |-> NoWallet]

\* Registrations without a sponsor, under the company and under a member, two
\* requests at a time
NextRoot ==
    \/ \E p \in Procs, email \in RootEmails, sponsorKey \in RootSponsorKeys,
          designee \in RootDesignees :
           CreateNewUserCheck(p, email, sponsorKey, designee)
    \/ \E p \in Procs, email \in RootEmails, sponsorKey \in RootSponsorKeys :
           CreateNewUserQueuedCheck(p, email, sponsorKey)
    \/ \E p \in Procs : NewUserSave(p)
    \/ \E p \in Procs : PlaceReturn(p)

SpecRoot == InitRoot /\ [][NextRoot]_vars

\* Monthly reports over one user document, one report at a time
NextPayout ==
    \/ /\ payoutRun.pc = "idle"
       /\ \E monthDate \in Months, packageUSD \in PayoutPackages,
             dateJoined \in JoinDates :
              CalculateMonthlyPayouts(monthDate, packageUSD, dateJoined)
    \/ PayoutReturn

SpecPayout == InitWallet /\ [][NextPayout]_vars

\* Offline deposits whose amountLocal / conversionRate may come out as 0, and
\* their verification, two requests at a time
NextZero ==
    \/ \E p \in Procs, userId \in LedgerDepositors, amountUSDT \in PaidAmounts :
           RecordDeposit(p, userId, amountUSDT)
    \/ \E p \in Procs, depositId \in 1..MaxOffline : VerifyBegin(p, depositId, Root)
    \/ \E p \in Procs : AwardDirect(p)
    \/ \E p \in Procs : VerifyUnilevel(p)
    \/ \E p \in Procs : VerifyMark(p)
    \/ \E p \in Procs : VerifyEntry(p)
    \/ \E p \in Procs : ActivatePackage(p)
    \/ \E p \in Procs : ActivationEntry(p)
    \/ \E p \in Procs : InitSummary(p)
    \/ \E p \in Procs : FundReturn(p)

SpecZero == InitWallet /\ [][NextZero]_vars

\* Offline deposits and their verification, one request after the other, with
\* statements that may fail; no verification starts once the ledger has
\* MaxAbortLedger entries.
NextAbort ==
    \/ Quiet /\ \E userId \in LedgerDepositors, amountUSDT \in DepositAmounts :
                    RecordDeposit(1, userId, amountUSDT)
    \/ /\ Quiet
       /\ Len(ledger) < MaxAbortLedger
       /\ \E depositId \in 1..MaxOffline : VerifyBegin(1, depositId, Root)
    \/ AwardDirect(1)
    \/ VerifyUnilevel(1)
    \/ VerifyMark(1)
    \/ VerifyEntry(1)
    \/ ActivatePackage(1)
    \/ ActivationEntry(1)
    \/ InitSummary(1)
    \/ VerifyFail(1)
    \/ FundReturn(1)

SpecAbort == InitWallet /\ [][NextAbort]_vars

\* Login OTPs, transfer OTPs and transfers of one member, one request after
\* the other
NextLogin ==
    \/ Quiet /\ \E userId \in OtpUsers, code \in GeneratedCodes :
                    /\ otps[userId].otpRequestCount < MaxOtpRequests
                    /\ GenerateAndSendTransferOtp(1, userId, code)
    \/ Quiet /\ \E userId \in Senders, isEmailVerified \in BOOLEAN, code \in OtpCodes :
                    RequestLoginOtp(1, userId, isEmailVerified, code)
    \/ Quiet /\ \E senderId \in OtpUsers, recipientId \in Recipients,
                    amount \in TransferAmounts, otp \in OtpCodes :
                    TransferCheck(1, senderId, recipientId, amount, otp)
    \/ TransferMismatch(1)
    \/ TransferDebit(1)
    \/ TransferCredit(1)
    \/ TransferLedgerOut(1)
    \/ TransferLedgerIn(1)
    \/ TransferClearOtp(1)
    \/ TransferCommit(1)
    \/ WalletReturn(1)
    \/ \E d \in WalletSteps : Advance(d, MaxTimeWallet)

SpecLogin == InitWallet /\ [][NextLogin]_vars

\* Transfer OTPs and transfers of one member, one request after the other,
\* with the clock running past the hour that follows a fifth failure
LockoutSteps == {1, HOUR}

NextLockout ==
    \/ Quiet /\ \E userId \in OtpUsers, code \in GeneratedCodes :
                    /\ otps[userId].otpRequestCount < MaxOtpRequests
                    /\ GenerateAndSendTransferOtp(1, userId, code)
    \/ Quiet /\ \E senderId \in OtpUsers, recipientId \in Recipients,
                    amount \in TransferAmounts, otp \in OtpCodes :
                    TransferCheck(1, senderId, recipientId, amount, otp)
    \/ TransferMismatch(1)
    \/ TransferDebit(1)
    \/ TransferCredit(1)
    \/ TransferLedgerOut(1)
    \/ TransferLedgerIn(1)
    \/ TransferClearOtp(1)
    \/ TransferCommit(1)
    \/ WalletReturn(1)
    \/ \E d \in LockoutSteps : Advance(d, MaxTimeLockout)

SpecLockout == InitWallet /\ [][NextLockout]_vars

\* The gateway's webhooks for the invoices, two requests at a time; a webhook
\* carries the invoice's payment id or another one
WebhookStatuses == {"finished", "failed", "refunded", "expired"}

WebhookPaymentIds(order_id) == {PaymentId(order_id), TempPaymentId(order_id)}

NextWebhook ==
    \/ \E p \in Procs, userId \in Depositors, amount \in InvoiceAmounts,
          gatewayOk \in BOOLEAN :
           CreateCryptoDepositInvoice(p, userId, amount, gatewayOk)
    \/ \E p \in Procs, order_id \in 1..MaxCrypto, payment_status \in WebhookStatuses :
           \E payment_id \in WebhookPaymentIds(order_id) :
               handleNowPaymentsWebhook(p, order_id, payment_id, payment_status)
    \/ \E p \in Procs : AwardDirect(p)
    \/ \E p \in Procs : ProcessUnilevel(p)
    \/ \E p \in Procs : ProcessMark(p)
    \/ \E p \in Procs : ActivatePackage(p)
    \/ \E p \in Procs : ActivationEntry(p)
    \/ \E p \in Procs : InitSummary(p)
    \/ \E p \in Procs : FundReturn(p)

SpecWebhook == InitWallet /\ [][NextWebhook]_vars
-----------------------------------------------------------------------------
(* Properties of the placement engine, checked under SpecPlace *)

\* C1: every member has at most directWidthCap (6) direct children in every
\* reachable state, also when placements on one parent interleave between
\* their child count and their write.
WidthCapHolds == \A u \in UserIds : DirectCount(u) <= directWidthCap

\* Has member u a deposit that was verified, of either kind?
HasVerifiedDeposit(u) == VerifiedOfflineCount(u) > 0 \/ ConfirmedCryptoCount(u) > 0

\* C8: no step changes the parentId of a member that has a direct child or a
\* verified deposit.
ParentImmutable ==
    [][\A u \in UserIds :
          (users[u].exists /\ (DirectCount(u) > 0 \/ HasVerifiedDeposit(u)))
              => users'[u].parentId = users[u].parentId]_vars

\* The two cases of an immediate placement under the real sponsor s, as the
\* decision of a createNewUser call c that has passed its checks
PlacedUnderSponsor(c, s) ==
    c.pc = "save" /\ c.parentId = s /\ c.originalSponsorId = s /\ ~c.isSplitSponsor

PlacedUnderDesignee(c, s, designee) ==
    c.pc = "save" /\ c.parentId = designee /\ c.originalSponsorId = s /\ c.isSplitSponsor

\* C10: a createNewUser with a new email under a real sponsor that has fewer
\* than 6 direct children, without a designee, places the member under the
\* sponsor with isSplitSponsor false; under a sponsor that has 6, with a
\* designee that is a direct child of the sponsor and has fewer than 6, it
\* places the member under the designee, keeps the sponsor as original sponsor
\* and sets isSplitSponsor; and the member is stored as placed.
ImmediatePlacement ==
    [][\A p \in Procs :
          /\ (placeCalls[p].pc = "idle" /\ placeCalls'[p].op = "createNewUser")
             => \A email \in Emails, sponsorKey \in SponsorKeys, designee \in Designees :
                    ( /\ BasicValidation(email) = "OK"
                      /\ CreateNewUserCheck(p, email, sponsorKey, designee) )
                    => \A s \in FindSponsor(sponsorKey) :
                           /\ (DirectCount(s) < 6 /\ designee = Null)
                                  => PlacedUnderSponsor(placeCalls'[p], s)
                           /\ ( /\ DirectCount(s) = 6
                                /\ designee \in UserIds
                                /\ users[designee].exists
                                /\ users[designee].parentId = s
                                /\ DirectCount(designee) < 6 )
                                  => PlacedUnderDesignee(placeCalls'[p], s, designee)
          /\ ( /\ placeCalls[p].op = "createNewUser"
               /\ placeCalls[p].pc = "save"
               /\ placeCalls'[p].err = "OK" )
             => LET c == placeCalls[p]
                    stored == users'[placeCalls'[p].userId]
                IN  /\ ~users[placeCalls'[p].userId].exists
                    /\ stored.exists
                    /\ stored.parentId = c.parentId
                    /\ stored.originalSponsorId = c.originalSponsorId
                    /\ stored.isSplitSponsor = c.isSplitSponsor]_vars

\* Both cases of C10 have happened: member 14 was registered under sponsor 2,
\* who has six children, with designee 7; member 15 under sponsor 1.
ImmediatePlacementReached ==
    /\ users[14].exists /\ users[14].isSplitSponsor
    /\ users[14].parentId = 7 /\ users[14].originalSponsorId = 2
    /\ users[15].exists /\ ~users[15].isSplitSponsor
    /\ users[15].parentId = 1 /\ users[15].originalSponsorId = 1


\* The error the claimed checks of a placement give for a request under
\* sponsorKey with designee, "OK" when it passes them all
PlacementFailure(sponsorKey, designee) ==
    IF sponsorKey = Null \/ sponsorKey = Root THEN "OK"
    ELSE IF FindSponsor(sponsorKey) = {} THEN "NotFoundError"
    ELSE LET s == CHOOSE u \in FindSponsor(sponsorKey) : TRUE
             hasCapacity == DirectCount(s) < directWidthCap
             isChild == designee \in UserIds /\ users[designee].exists
                        /\ users[designee].parentId = s
         IN  IF hasCapacity /\ designee # Null THEN "ValidationError"
             ELSE IF hasCapacity THEN "OK"
             ELSE IF designee = Null THEN "ValidationError"
             ELSE IF ~isChild THEN "ValidationError"
             ELSE IF DirectCount(designee) >= directWidthCap THEN "ConflictError"
             ELSE "OK"

\* C11: a createNewUser with a new email whose placement fails a check (unknown
\* sponsor, designee although the sponsor has capacity, no designee although the
\* sponsor is full, designee not a direct child of the sponsor, designee with 6
\* children) ends with that check's error in the step that made the checks,
\* and that step neither creates nor changes a member nor draws an id.
CreateFailsBeforeWrite ==
    [][\A p \in Procs :
          (placeCalls[p].pc = "idle" /\ placeCalls'[p].op = "createNewUser")
             => \A email \in Emails, sponsorKey \in SponsorKeys, designee \in Designees :
                    ( /\ BasicValidation(email) = "OK"
                      /\ PlacementFailure(sponsorKey, designee) # "OK"
                      /\ CreateNewUserCheck(p, email, sponsorKey, designee) )
                    => /\ placeCalls'[p].pc = "done"
                       /\ placeCalls'[p].err = PlacementFailure(sponsorKey, designee)
                       /\ users' = users
                       /\ userSeq' = userSeq]_vars

\* Placements have failed on a designee with six children and on an unknown
\* sponsor, after member 14 was registered.
CreateFailsReached ==
    /\ users[14].exists
    /\ \E p, q \in Procs :
          /\ placeCalls[p].op = "createNewUser" /\ placeCalls[p].pc = "done"
          /\ placeCalls[p].err = "ConflictError"
          /\ placeCalls[q].op = "createNewUser" /\ placeCalls[q].pc = "done"
          /\ placeCalls[q].err = "NotFoundError"

-----------------------------------------------------------------------------
(* Properties of the placement queue, checked under SpecQueue *)

\* getPlacementQueue(sponsorId): User.find({ originalSponsorId, parentId: null })
getPlacementQueue(sponsorId) ==
    {u \in UserIds : users[u].exists /\ users[u].originalSponsorId = sponsorId
                     /\ users[u].parentId = Null}

\* Is placementParentId the sponsor or one of the sponsor's direct children?
SponsorOrChild(sponsorId, placementParentId) ==
    placementParentId = sponsorId \/ users[placementParentId].parentId = sponsorId

\* C12: a placeUser by the original sponsor of a queued member, before the
\* member's deadline, naming the sponsor or a direct child of the sponsor with
\* fewer than 6 direct children, stores the member with that parent, with
\* isSplitSponsor true exactly when the parent is not the sponsor and without
\* deadline, and takes the member out of the sponsor's placement queue.
PlaceUserStoresPlacement ==
    [][\A p \in Procs :
          (placeCalls[p].pc = "idle" /\ placeCalls'[p].op = "placeUser")
             => \A s \in PlacingSponsors, n \in PlacedOrQueued, pp \in ChosenParents :
                    ( /\ placeCalls'[p].userId = n
                      /\ Exists(n) /\ Exists(s) /\ Exists(pp)
                      /\ n \in getPlacementQueue(s)
                      /\ now <= users[n].placementDeadline
                      /\ SponsorOrChild(s, pp)
                      /\ DirectCount(pp) < directWidthCap
                      /\ PlaceUser(p, s, n, pp) )
                    => /\ placeCalls'[p].err = "OK"
                       /\ users'[n].parentId = pp
                       /\ users'[n].isSplitSponsor = (pp # s)
                       /\ users'[n].placementDeadline = NoDeadline
                       /\ n \notin {u \in UserIds :
                                       users'[u].exists
                                       /\ users'[u].originalSponsorId = s
                                       /\ users'[u].parentId = Null}]_vars

\* The cases of C13 that hold of a placeUser request, as the errors they give
PlaceUserFailures(sponsorId, newUserId, placementParentId) ==
    LET m == users[newUserId]
    IN  (IF m.placementDeadline # NoDeadline /\ now > m.placementDeadline
         THEN {"ConflictError"} ELSE {})
        \cup (IF m.parentId # Null THEN {"ConflictError"} ELSE {})
        \cup (IF m.originalSponsorId # sponsorId THEN {"AuthorizationError"} ELSE {})
        \cup (IF ~SponsorOrChild(sponsorId, placementParentId)
              THEN {"ValidationError"} ELSE {})
        \cup (IF DirectCount(placementParentId) >= directWidthCap
              THEN {"ConflictError"} ELSE {})

\* C13: a placeUser for which the deadline has passed, the member is already
\* placed, the caller is not the original sponsor, the placement parent is
\* neither the sponsor nor a direct child of the sponsor, or the placement
\* parent has 6 direct children, fails with the error of one of the cases that
\* hold (ConflictError, ConflictError, AuthorizationError, ValidationError,
\* ConflictError) and leaves the member's stored parentId as it was.
PlaceUserFails ==
    [][\A p \in Procs :
          (placeCalls[p].pc = "idle" /\ placeCalls'[p].op = "placeUser")
             => \A s \in PlacingSponsors, n \in PlacedOrQueued, pp \in ChosenParents :
                    ( /\ placeCalls'[p].userId = n
                      /\ Exists(n) /\ Exists(s) /\ Exists(pp)
                      /\ PlaceUserFailures(s, n, pp) # {}
                      /\ PlaceUser(p, s, n, pp) )
                    => /\ placeCalls'[p].err \in PlaceUserFailures(s, n, pp)
                       /\ users'[n].parentId = users[n].parentId]_vars

\* After the deadline of member 13 a placement of it has failed with
\* ConflictError, while another request failed with AuthorizationError.
PlaceUserFailsReached ==
    /\ now > users[13].placementDeadline
    /\ \E p, q \in Procs :
          /\ placeCalls[p].op = "placeUser" /\ placeCalls[p].pc = "done"
          /\ placeCalls[p].userId = 13 /\ placeCalls[p].err = "ConflictError"
          /\ placeCalls[q].op = "placeUser" /\ placeCalls[q].pc = "done"
          /\ placeCalls[q].err = "AuthorizationError"

-----------------------------------------------------------------------------
(* Properties of the sequential ids, checked under SpecPlace *)

\* The call of process q has created a member.
Created(q) ==
    /\ placeCalls[q].op \in {"createNewUser", "createNewUserQueued"}
    /\ placeCalls[q].pc = "done"
    /\ placeCalls[q].err = "OK"

\* C23: the id of a new member is drawn by one atomic increment-and-read of
\* the counter: every save draws the next value, no member had it before, the
\* other members' documents stay as they are, and no two members created
\* concurrently receive the same id.
SequentialIdsUnique ==
    [][\A p \in Procs :
          (/\ placeCalls[p].pc = "save"
           /\ placeCalls[p].op \in {"createNewUser", "createNewUserQueued"}
           /\ placeCalls'[p].pc = "done")
              => LET id == userSeq'
                 IN  /\ id = userSeq + 1
                     /\ ~users[id].exists
                     /\ \A u \in UserIds \ {id} : users'[u] = users[u]
                     /\ placeCalls'[p].err = "OK"
                            => /\ users'[id].exists
                               /\ placeCalls'[p].userId = id
                     /\ \A q \in Procs \ {p} : Created(q) => placeCalls[q].userId # id]_vars

\* Two registrations that ran at the same time have both created their member.
SequentialIdsReached ==
    /\ \A q \in Procs : Created(q)
    /\ placeCalls[1].userId # placeCalls[2].userId

-----------------------------------------------------------------------------
(* Properties of the split-sponsor flag, checked under SpecMove *)

\* C24: for every placed member (parentId not null), isSplitSponsor is true
\* exactly when parentId differs from originalSponsorId, after createNewUser,
\* placeUser and updateUser alike.
SplitSponsorFlag ==
    \A u \in UserIds :
        (users[u].exists /\ users[u].parentId # Null)
            => (users[u].isSplitSponsor <=> users[u].parentId # users[u].originalSponsorId)

-----------------------------------------------------------------------------
(* Properties of the registration under the company, checked under SpecRoot *)

\* C27: createNewUser with no sponsor, or with the root identity as sponsor,
\* creates the member with parent = root and original sponsor = root, whatever
\* the number of direct children the root has and whatever designee is named.
RootPlacementUncapped ==
    [][\A p \in Procs :
          /\ \A email \in RootEmails, sponsorKey \in {Null, Root}, designee \in RootDesignees :
                 (/\ placeCalls'[p].op = "createNewUser"
                  /\ BasicValidation(email) = "OK"
                  /\ CreateNewUserCheck(p, email, sponsorKey, designee))
                     => /\ placeCalls'[p].pc = "save"
                        /\ placeCalls'[p].parentId = Root
                        /\ placeCalls'[p].originalSponsorId = Root
          /\ (/\ placeCalls[p].op = "createNewUser"
              /\ placeCalls[p].pc = "save"
              /\ placeCalls[p].originalSponsorId = Root
              /\ placeCalls'[p].err = "OK")
                 => /\ users'[userSeq'].exists
                    /\ users'[userSeq'].parentId = Root
                    /\ users'[userSeq'].originalSponsorId = Root
                    /\ ~users'[userSeq'].isSplitSponsor]_vars

\* A registration without a sponsor went through while the root had six direct
\* children or more.
RootPlacementReached ==
    \E p \in Procs :
        /\ placeCalls[p].op = "createNewUser"
        /\ placeCalls[p].pc = "done"
        /\ placeCalls[p].err = "OK"
        /\ users[placeCalls[p].userId].parentId = Root
        /\ DirectCount(Root) > directWidthCap

-----------------------------------------------------------------------------
(* Properties of the deletion of a member, checked under SpecDelete *)

\* C31: deleteUser on a childless member whose availableToWithdraw is b > 0
\* completes the archival by sweeping the funds to the root: it posts a
\* FUND_TRANSFER_ON_DELETE entry of -b for the member and one of +b for the
\* root and increases the root's availableToWithdraw by b; the call ends with
\* the member and its summary removed and a tombstone written; when b is 0 or
\* the member has no summary, no ledger entry is written.
DeleteSweepsFunds ==
    [][\A p \in Procs :
          LET c == placeCalls[p]
              d == placeCalls'[p]
              u == c.userId
              b == wallets[u].availableToWithdraw
              rootBefore == IF wallets[Root].exists
                            THEN wallets[Root].availableToWithdraw ELSE 0
          IN  /\ (/\ c.op = "deleteUser"
                  /\ c.pc = "wallet"
                  /\ d.pc # "wallet"
                  /\ wallets[u].exists
                  /\ b > 0)
                     => /\ d.pc = "done" => d.err = "OK"
                        /\ \E i, j \in DOMAIN ledger' \ DOMAIN ledger :
                               /\ ledger'[i].type = "FUND_TRANSFER_ON_DELETE"
                               /\ ledger'[i].userId = u
                               /\ ledger'[i].amount = 0 - b
                               /\ ledger'[j].type = "FUND_TRANSFER_ON_DELETE"
                               /\ ledger'[j].userId = Root
                               /\ ledger'[j].amount = b
                        /\ wallets'[Root].exists
                        /\ wallets'[Root].availableToWithdraw = rootBefore + b
              /\ (/\ c.op = "deleteUser"
                  /\ c.pc = "wallet"
                  /\ d.pc # "wallet"
                  /\ (~wallets[u].exists \/ b = 0))
                     => ledger' = ledger
              /\ (/\ c.op = "deleteUser"
                  /\ c.pc # "done"
                  /\ d.pc = "done"
                  /\ d.err = "OK")
                     => /\ ~users'[u].exists
                        /\ ~wallets'[u].exists
                        /\ u \in deletedUsers']_vars
-----------------------------------------------------------------------------
(* Properties of the bonus engine, checked under SpecFund *)

\* The funding events: offline deposits by their id, crypto deposits by theirs
FundingEvents ==
    DOMAIN offlineDeposits \cup {CryptoRef(d) : d \in DOMAIN cryptoDeposits}

EventOwner(ref) ==
    IF ref \in DOMAIN offlineDeposits THEN offlineDeposits[ref].userId
    ELSE cryptoDeposits[ref - CryptoRef(0)].userId

EventAmount(ref) ==
    IF ref \in DOMAIN offlineDeposits THEN offlineDeposits[ref].amountUSDT
    ELSE cryptoDeposits[ref - CryptoRef(0)].amountUSDT

\* The entries of one type that reference funding event ref
BonusEntries(type, ref) ==
    {i \in DOMAIN ledger : ledger[i].type = type /\ ledger[i].depositId = ref}

\* What the funding events of the set refs amount to
RECURSIVE EventsTotal(_)
EventsTotal(refs) ==
    IF refs = {} THEN 0
    ELSE LET ref == CHOOSE r \in refs : TRUE
         IN  EventAmount(ref) + EventsTotal(refs \ {ref})

DepositedBy(u) == EventsTotal({ref \in FundingEvents : EventOwner(ref) = u})

\* C3: however often and however interleaved a funding event is verified, at
\* most one DIRECT entry and at most one UNILEVEL entry per level reference it,
\* and its owner's packageUSD has grown by its amount at most once (it never
\* exceeds what the owner deposited).
BonusesPostedOnce ==
    /\ \A ref \in FundingEvents :
           /\ Cardinality(BonusEntries("DIRECT", ref)) <= 1
           /\ \A level \in DOMAIN UNILEVEL_PCTS :
                  Cardinality({i \in BonusEntries("UNILEVEL", ref) :
                                  ledger[i].level = level}) <= 1
    /\ \A u \in UserIds : pkg[u].packageUSD <= DepositedBy(u)

\* C5: the UNILEVEL entries sourced from one member all reference one funding
\* event.
UnilevelForOneEvent ==
    \A u \in UserIds :
        Cardinality({ledger[i].depositId :
                        i \in {j \in DOMAIN ledger : /\ ledger[j].type = "UNILEVEL"
                                                     /\ ledger[j].sourceUserId = u}}) <= 1

\* The DIRECT entry C6 asks for when a deposit of amount by member u is
\* verified: none when the recipient is absent or the company.
ExpectedDirect(u, ref, amount) ==
    LET n == VerifiedOfflineCount(u) + ConfirmedCryptoCount(u)
        recipientId == IF n = 0 THEN users[u].originalSponsorId ELSE users[u].parentId
        pct == IF n = 0 THEN FIRST_DEPOSIT_DIRECT_BONUS_PCT
               ELSE getReinvestmentBonusPct(n)
    IN  IF recipientId = Null \/ recipientId = Root THEN <<>>
        ELSE <<LedgerEntry(recipientId, "DIRECT", Pct(amount, pct), "POSTED", ref, u,
                           NoLevel, NoTx)>>

\* C6: the DIRECT bonus of a member's first verified deposit, offline or crypto,
\* goes to the original sponsor at the first-deposit percentage; that of a
\* later one to the current parent at getReinvestmentBonusPct(n), n the number
\* of the member's deposits verified before.
DirectBonusRecipient ==
    [][\A p \in Procs :
          (fundCalls[p].pc = "direct" /\ fundCalls'[p].pc = "unilevel")
              => LET c == fundCalls[p]
                 IN  ledger' = ledger \o ExpectedDirect(c.user.userId, DepositRef(c),
                                                       c.amount)]_vars

-----------------------------------------------------------------------------
(* Properties of the wallet, checked under SpecLedger and SpecWallet *)

\* The entry types that affect the spendable balance
BalanceTypes ==
    {"DIRECT", "UNILEVEL", "TRANSFER_IN", "TRANSFER_OUT", "WITHDRAWAL_REQUEST",
     "FUND_TRANSFER_ON_DELETE"}

\* The signed sum of owner's balance-affecting entries with a status of statuses
RECURSIVE SignedSum(_, _, _)
SignedSum(l, owner, statuses) ==
    IF l = <<>> THEN 0
    ELSE LET e == Head(l)
         IN  (IF e.userId = owner /\ e.type \in BalanceTypes /\ e.status \in statuses
              THEN e.amount ELSE 0)
             + SignedSum(Tail(l), owner, statuses)

BalanceMatchesLedger(statuses) ==
    \A owner \in WalletOwners :
        wallets[owner].exists
            => wallets[owner].availableToWithdraw = SignedSum(ledger, owner, statuses)

\* C2 as stated: when no request is being served, availableToWithdraw of every
\* member with a summary is the signed sum of its balance-affecting entries of
\* status POSTED, PAID or VERIFIED.
BalanceIsSettledSum ==
    Quiet => BalanceMatchesLedger({"POSTED", "PAID", "VERIFIED"})

\* C2, amended: when no request is being served, after requests served one
\* after the other, availableToWithdraw of every member with a summary is the
\* signed sum of its balance-affecting entries of status POSTED, PAID, VERIFIED
\* or PENDING (a pending withdrawal request is already debited; a rejected one
\* is refunded and no longer counts).
BalanceIsLedgerSum ==
    Quiet => BalanceMatchesLedger({"POSTED", "PAID", "VERIFIED", "PENDING"})

HasEntry(type, status) ==
    \E i \in DOMAIN ledger : ledger[i].type = type /\ ledger[i].status = status

\* A quiet state after a bonus award (the second deposit is verified), a
\* transfer and a withdrawal request that was rejected
LedgerSumReached ==
    /\ Quiet
    /\ Len(offlineDeposits) = 2 /\ offlineDeposits[2].status = "VERIFIED"
    /\ HasEntry("TRANSFER_OUT", "POSTED")
    /\ HasEntry("WITHDRAWAL_REQUEST", "REJECTED")

\* Does call c of executeTransfer end here, and how?
Commits(p) ==
    /\ walletCalls[p].op = "executeTransfer"
    /\ walletCalls[p].pc = "commit"
    /\ walletCalls'[p].pc = "done"
    /\ walletCalls'[p].err = "OK"

Rejected(p) ==
    /\ walletCalls'[p].op = "executeTransfer"
    /\ walletCalls[p].pc # "done"
    /\ walletCalls'[p].pc = "done"
    /\ walletCalls'[p].err # "OK"

TransferEntries(type, txId) ==
    {i \in DOMAIN ledger : ledger[i].type = type /\ ledger[i].txId = txId}

\* C4: the step that commits a transfer debits the sender by exactly amount,
\* credits the recipient by exactly amount, touches no other summary and
\* appends one TRANSFER_OUT and one TRANSFER_IN entry with the same
\* transaction id; a transfer that ends in an error, also one that fails after
\* the sender's debit, changes no summary and no entry.
TransferAtomic ==
    [][\A p \in Procs :
          /\ Commits(p)
             => LET c == walletCalls[p]
                IN  /\ wallets'[c.senderId].availableToWithdraw
                           = wallets[c.senderId].availableToWithdraw - c.amount
                    /\ wallets'[c.recipientId].availableToWithdraw
                           = wallets[c.recipientId].availableToWithdraw + c.amount
                    /\ \A o \in WalletOwners \ {c.senderId, c.recipientId} :
                           wallets'[o] = wallets[o]
                    /\ ledger' = ledger \o
                           <<LedgerEntry(c.senderId, "TRANSFER_OUT", 0 - c.amount,
                                         "POSTED", NoDeposit, Null, NoLevel,
                                         c.transactionId),
                             LedgerEntry(c.recipientId, "TRANSFER_IN", c.amount,
                                         "POSTED", NoDeposit, Null, NoLevel,
                                         c.transactionId)>>
                    /\ TransferEntries("TRANSFER_OUT", c.transactionId) = {}
                    /\ TransferEntries("TRANSFER_IN", c.transactionId) = {}
          /\ Rejected(p) => (wallets' = wallets /\ ledger' = ledger)
          /\ (walletCalls[p].op = "executeTransfer" /\ ~Commits(p)
              /\ walletCalls'[p].pc # walletCalls[p].pc)
             => (wallets' = wallets /\ ledger' = ledger)]_vars

\* One transfer has committed while another, failed after its debit, has not
\* yet been answered.
TransferAtomicReached ==
    \E p, q \in Procs :
        /\ walletCalls[p].op = "executeTransfer" /\ walletCalls[p].pc = "done"
        /\ walletCalls[p].err = "OK"
        /\ walletCalls[q].op = "executeTransfer" /\ walletCalls[q].pc = "done"
        /\ walletCalls[q].reason = "failure"

\* The checks that come before the lockout check, and the ends that are not the
\* handler's own answer
BeforeLockout == {"self", "amount", "sender", "recipient", "wallet"}
NotAnAnswer == {"conflict", "failure"}

\* C7: an executeTransfer of a sender that starts within the hour after the
\* sender's fifth consecutive OTP-mismatch failure, and passes the checks that
\* precede the lockout check, fails with AuthorizationError.
LockedOutAfterFive ==
    \A p \in Procs :
        ( /\ walletCalls[p].op = "executeTransfer"
          /\ walletCalls[p].pc = "done"
          /\ walletCalls[p].wasLocked
          /\ walletCalls[p].reason \notin BeforeLockout \cup NotAnAnswer
          /\ walletCalls[p].err # "WriteConflict" )
        => walletCalls[p].err = "AuthorizationError"

\* The preconditions of executeTransfer in the order of C9; each holds
\* vacuously where an earlier one fails to make it meaningful.
Precondition(i, senderId, recipientId, amount, otp) ==
    CASE i = 1 -> senderId # recipientId
      [] i = 2 -> amount > 0
      [] i = 3 -> Exists(senderId)
      [] i = 4 -> Exists(recipientId)
      [] i = 5 -> Exists(senderId) => wallets[senderId].exists
      [] i = 6 -> Exists(senderId) =>
                      ~(/\ otps[senderId].otpLockoutExpires # NoTime
                        /\ now < otps[senderId].otpLockoutExpires)
      [] i = 7 -> Exists(senderId) =>
                      /\ otps[senderId].otp # NoOtp
                      /\ otps[senderId].otpExpires # NoTime
                      /\ now <= otps[senderId].otpExpires
      [] i = 8 -> Exists(senderId) => otp = otps[senderId].otp
      [] i = 9 -> (Exists(senderId) /\ wallets[senderId].exists) =>
                      wallets[senderId].availableToWithdraw >= amount

\* The first precondition that fails, 0 when none does
FirstFailed(senderId, recipientId, amount, otp) ==
    LET failed == {i \in 1..9 : ~Precondition(i, senderId, recipientId, amount, otp)}
    IN  IF failed = {} THEN 0 ELSE CHOOSE i \in failed : \A j \in failed : i <= j

\* The precondition a rejection's tag stands for
PreconditionOf(reason) ==
    CASE reason = "self" -> 1
      [] reason = "amount" -> 2
      [] reason = "sender" -> 3
      [] reason = "recipient" -> 4
      [] reason = "wallet" -> 5
      [] reason = "lockout" -> 6
      [] reason \in {"no otp", "expired"} -> 7
      [] reason = "mismatch" -> 8
      [] reason = "funds" -> 9
      [] OTHER -> 0

\* C9: executeTransfer stops at the first precondition that fails, in the order
\* sender differs from recipient, amount > 0, sender exists, recipient exists,
\* sender has a summary, no active lockout, an unexpired OTP exists, the OTP
\* matches (then sufficient funds); and no step of a transfer that is rejected
\* changes a summary or the ledger.
PreconditionOrder ==
    [][\A p \in Procs :
          /\ (walletCalls[p].pc = "idle" /\ walletCalls'[p].op = "executeTransfer")
             => \A senderId \in Senders, recipientId \in Recipients,
                   amount \in TransferAmounts, otp \in OtpCodes :
                    ( /\ walletCalls'[p].senderId = senderId
                      /\ TransferCheck(p, senderId, recipientId, amount, otp) )
                    => /\ PreconditionOf(walletCalls'[p].reason)
                             = FirstFailed(senderId, recipientId, amount, otp)
                       /\ FirstFailed(senderId, recipientId, amount, otp) = 0
                             <=> walletCalls'[p].pc = "debit"
                       /\ FirstFailed(senderId, recipientId, amount, otp) # 0
                             => wallets' = wallets /\ ledger' = ledger
          /\ Rejected(p) => (wallets' = wallets /\ ledger' = ledger)]_vars

\* A transfer rejected for a wrong OTP and one rejected for an expired OTP
PreconditionOrderReached ==
    \E p, q \in Procs :
        /\ walletCalls[p].op = "executeTransfer" /\ walletCalls[p].pc = "done"
        /\ walletCalls[p].reason = "mismatch"
        /\ walletCalls[q].op = "executeTransfer" /\ walletCalls[q].pc = "done"
        /\ walletCalls[q].reason = "expired"


-----------------------------------------------------------------------------
(* Properties of the OTP request limit, checked under SpecOtp *)

\* Does a request for userId made now come within one hour of the OTP that
\* was issued last?
InOtpRun(userId) ==
    otpRun[userId].lastAt # NoTime /\ now - otpRun[userId].lastAt <= HOUR

\* C14, the limit: in no run of requests, each within one hour of the OTP
\* issued before it, have more than 5 OTPs been issued to a member.
OtpRunAtMostFive == \A u \in UserIds : otpRun[u].issued <= MAX_OTP_REQUESTS

-----------------------------------------------------------------------------
(* Properties of the withdrawal lifecycle, checked under SpecLedger *)

\* The summaries of all members but u stay as they are.
OtherSummariesKept(u) == \A o \in WalletOwners \ {u} : wallets'[o] = wallets[o]

\* C15: createWithdrawalRequest passes its checks only for a member with
\* kycStatus VERIFIED and 0 < amount <= availableToWithdraw, then records a
\* PENDING WITHDRAWAL_REQUEST entry of -amount and debits availableToWithdraw by
\* amount; approveWithdrawal moves a PENDING entry to PAID and changes no
\* balance; rejectWithdrawal credits availableToWithdraw back by exactly the
\* amount and moves the PENDING entry to REJECTED.
WithdrawalLifecycle ==
    [][\A p \in Procs :
          LET c == walletCalls[p]
              d == walletCalls'[p]
          IN  /\ (c.pc = "idle" /\ d.op = "createWithdrawalRequest" /\ d.pc = "entry")
                  => /\ kyc[d.senderId] = "VERIFIED"
                     /\ 0 < d.amount
                     /\ d.amount <= wallets[d.senderId].availableToWithdraw
                     /\ ledger' = ledger /\ wallets' = wallets
              /\ (c.op = "createWithdrawalRequest" /\ c.pc = "entry" /\ d.pc # "entry")
                  => /\ ledger' = Append(ledger,
                            LedgerEntry(c.senderId, "WITHDRAWAL_REQUEST", 0 - c.amount,
                                        "PENDING", NoDeposit, Null, NoLevel, NoTx))
                     /\ wallets' = wallets
              /\ (c.op = "createWithdrawalRequest" /\ c.pc = "summary" /\ d.pc = "done")
                  => /\ d.err = "OK"
                     /\ wallets'[c.senderId].availableToWithdraw =
                            wallets[c.senderId].availableToWithdraw - c.amount
                     /\ wallets'[c.senderId].lifetimeEarnings =
                            wallets[c.senderId].lifetimeEarnings
                     /\ OtherSummariesKept(c.senderId)
                     /\ ledger' = ledger
              /\ (c.pc = "idle" /\ d.op \in {"approveWithdrawal", "rejectWithdrawal"})
                  => /\ ledger' = ledger /\ wallets' = wallets
                     /\ d.pc # "done"
                            => /\ ledger[d.entryId].type = "WITHDRAWAL_REQUEST"
                               /\ ledger[d.entryId].status = "PENDING"
              /\ (c.op = "approveWithdrawal" /\ c.pc = "paid" /\ d.pc = "done")
                  => /\ d.err = "OK"
                     /\ ledger' = [ledger EXCEPT ![c.entryId].status = "PAID"]
                     /\ wallets' = wallets
              /\ (c.op = "rejectWithdrawal" /\ c.pc = "refund" /\ d.pc # "refund")
                  => LET u == ledger[c.entryId].userId
                     IN  /\ wallets'[u].availableToWithdraw =
                                wallets[u].availableToWithdraw - ledger[c.entryId].amount
                         /\ ledger[c.entryId].amount < 0
                         /\ wallets'[u].lifetimeEarnings = wallets[u].lifetimeEarnings
                         /\ OtherSummariesKept(u)
                         /\ ledger' = ledger
              /\ (c.op = "rejectWithdrawal" /\ c.pc = "rejected" /\ d.pc = "done")
                  => /\ d.err = "OK"
                     /\ ledger' = [ledger EXCEPT ![c.entryId].status = "REJECTED"]
                     /\ wallets' = wallets]_vars

\* One request was paid and another was rejected and refunded.
WithdrawalLifecycleReached ==
    /\ Quiet
    /\ HasEntry("WITHDRAWAL_REQUEST", "PAID")
    /\ HasEntry("WITHDRAWAL_REQUEST", "REJECTED")

-----------------------------------------------------------------------------
(* Properties of lifetimeEarnings, checked under SpecLedger *)

\* WalletLedger types that record an earning
EarningTypes == {"DIRECT", "UNILEVEL", "ROI", "SALARY"}

\* C16: a member's lifetimeEarnings changes only by the amount of an
\* earning-type entry (DIRECT, UNILEVEL, ROI, SALARY) posted for that member;
\* no transfer, deposit record or withdrawal operation changes it.
LifetimeOnlyFromEarnings ==
    [][\A o \in WalletOwners :
          wallets'[o].lifetimeEarnings # wallets[o].lifetimeEarnings
              => \E i \in DOMAIN ledger' \ DOMAIN ledger :
                     /\ ledger'[i].userId = o
                     /\ ledger'[i].type \in EarningTypes
                     /\ ledger'[i].status = "POSTED"
                     /\ ledger'[i].amount =
                            wallets'[o].lifetimeEarnings - wallets[o].lifetimeEarnings]_vars

-----------------------------------------------------------------------------
(* Properties of a deposit's verification, checked under SpecLedger *)

\* The PACKAGE_ACTIVATION entries of a deposit
ActivationEntries(l, depositId) ==
    {i \in DOMAIN l : l[i].type = "PACKAGE_ACTIVATION" /\ l[i].depositId = depositId}

\* C17: a successful verifyDepositAndActivatePackage on a PENDING deposit d of
\* member m marks d VERIFIED with its verification stamp and the lineage
\* snapshot, adds d.amountUSDT to m.packageUSD, sets m.isPackageActive, posts
\* exactly one POSTED PACKAGE_ACTIVATION entry of d.amountUSDT for m without
\* changing m's availableToWithdraw, and ensures m's summary row: created with
\* zero balances when absent, left as it is otherwise.
VerifyActivatesPackage ==
    [][\A p \in Procs :
          LET c == fundCalls[p]
              e == fundCalls'[p]
          IN  /\ (c.pc = "idle" /\ e.op = "verifyDeposit" /\ e.pc # "done")
                  => /\ offlineDeposits[e.depositId].status = "PENDING"
                     /\ ActivationEntries(ledger, e.depositId) = {}
              /\ (c.op = "verifyDeposit" /\ c.pc \notin {"idle", "done"} /\ e.pc # c.pc)
                  => LET d == offlineDeposits[c.depositId]
                         m == d.userId
                     IN  /\ wallets'[m].availableToWithdraw = wallets[m].availableToWithdraw
                         /\ c.pc = "mark"
                                => /\ offlineDeposits' = [offlineDeposits EXCEPT
                                          ![c.depositId] =
                                              [d EXCEPT
                                                  !.status = "VERIFIED",
                                                  !.verified = TRUE,
                                                  !.lineageSnapshot =
                                                      [originalSponsorId |->
                                                           users[m].originalSponsorId,
                                                       parentId |-> users[m].parentId,
                                                       unilevelUpline |->
                                                           getUplineForUnilevel(
                                                               users[m].parentId)]]]
                                   /\ d.status = "PENDING"
                         /\ c.pc = "user"
                                => pkg' = [pkg EXCEPT ![m] =
                                              [packageUSD |-> pkg[m].packageUSD + d.amountUSDT,
                                               isPackageActive |-> TRUE]]
                         /\ c.pc = "activation"
                                => /\ ledger' = Append(ledger,
                                          LedgerEntry(m, "PACKAGE_ACTIVATION", d.amountUSDT,
                                                      "POSTED", c.depositId, Null, NoLevel,
                                                      NoTx))
                                   /\ wallets' = wallets
                         /\ c.pc = "summary"
                                => /\ e.pc = "done" /\ e.err = "OK"
                                   /\ wallets'[m].exists
                                   /\ wallets[m].exists => wallets'[m] = wallets[m]
                                   /\ ~wallets[m].exists
                                          => /\ wallets'[m].availableToWithdraw = 0
                                             /\ wallets'[m].lifetimeEarnings = 0
                                   /\ OtherSummariesKept(m)
                                   /\ d.status = "VERIFIED" /\ d.verified
                                   /\ pkg[m].isPackageActive
                                   /\ Cardinality(ActivationEntries(ledger, c.depositId)) = 1
                                   /\ UNCHANGED <<offlineDeposits, pkg, ledger>>]_vars

\* A second deposit of member 3, who had a package and a summary row, was
\* verified.
VerifyActivatesPackageReached ==
    /\ fundCalls[1].op = "verifyDeposit"
    /\ fundCalls[1].pc = "done"
    /\ fundCalls[1].err = "OK"
    /\ offlineDeposits[fundCalls[1].depositId].userId = 3
    /\ pkg[3].packageUSD = InitialDeposit + 100

-----------------------------------------------------------------------------
(* Properties of the payment gateway's webhook, checked under SpecFund *)

\* C18: processCryptoDeposit for a crypto deposit whose status is not PENDING
\* returns without an error and leaves every deposit, member, ledger entry and
\* summary as it is.
WebhookRetryIsNoOp ==
    [][\A p \in Procs, depositId \in 1..MaxCrypto :
          (/\ fundCalls'[p].op = "processCryptoDeposit"
           /\ depositId \in DOMAIN cryptoDeposits
           /\ cryptoDeposits[depositId].status # "PENDING"
           /\ ProcessBegin(p, depositId, PaymentId(depositId)))
              => /\ fundCalls'[p].pc = "done"
                 /\ fundCalls'[p].err = "Ignored"
                 /\ UNCHANGED <<cryptoDeposits, offlineDeposits, users, pkg, ledger,
                                wallets>>]_vars

\* The webhook came again for a deposit that was confirmed, and was ignored.
WebhookRetryReached ==
    \E p \in Procs :
        /\ fundCalls[p].op = "processCryptoDeposit"
        /\ fundCalls[p].pc = "done"
        /\ fundCalls[p].err = "Ignored"
        /\ cryptoDeposits[fundCalls[p].depositId].status = "CONFIRMED"

-----------------------------------------------------------------------------
(* Properties of the unilevel bonus, checked under SpecUpline *)

\* The stored parent of a member; none above the root or an absent member.
ParentOf(u) == IF Exists(u) THEN users[u].parentId ELSE Null

\* The n-th ancestor of u, Null once the climb has passed the root.
RECURSIVE NthAncestor(_, _)
NthAncestor(u, n) ==
    IF n = 0 THEN u
    ELSE LET a == NthAncestor(u, n - 1)
         IN  IF a \in {Null, Root} THEN Null ELSE ParentOf(a)

\* The levels above parentId that hold a member below the root
PaidLevels(parentId) ==
    {i \in DOMAIN UNILEVEL_PCTS : NthAncestor(parentId, i) \notin {Null, Root}}

\* The member has no verified funding event of either kind.
NoVerifiedFunding(m) == VerifiedOfflineCount(m) = 0 /\ ConfirmedCryptoCount(m) = 0

\* C19: the UNILEVEL entries of a member's first verified deposit go to the
\* ancestors of the member's parent, from the parent's parent upwards in order,
\* at most 6 and none at or above the root, level i being paid
\* UNILEVEL_PCTS[i] of the amount; the member's parent gets none of them.
UnilevelRecipients ==
    [][\A p \in Procs :
          LET c == fundCalls[p]
              m == c.user.userId
              parentId == users[m].parentId
              k == Cardinality(PaidLevels(parentId))
          IN  (/\ c.pc = "unilevel"
               /\ fundCalls'[p].pc # "unilevel"
               /\ NoVerifiedFunding(m))
                  => /\ PaidLevels(parentId) = 1..k
                     /\ ledger' = ledger \o
                            [i \in 1..k |->
                                LedgerEntry(NthAncestor(parentId, i), "UNILEVEL",
                                            Pct(c.amount, UNILEVEL_PCTS[i]), "POSTED",
                                            DepositRef(c), m, i, NoTx)]
                     /\ \A i \in DOMAIN ledger' \ DOMAIN ledger :
                            ledger'[i].userId # parentId]_vars

\* No DIRECT or UNILEVEL entry is owned by the company.
NoBonusEntryForRoot ==
    \A i \in DOMAIN ledger :
        ledger[i].type \in {"DIRECT", "UNILEVEL"} => ledger[i].userId # Root

\* C20: in every reachable state no DIRECT or UNILEVEL entry is owned by the
\* root identity, and no bonus award changes the root's summary.
RootCollectsNothing ==
    /\ []NoBonusEntryForRoot
    /\ [][\A p \in Procs :
              (/\ fundCalls[p].pc \in {"direct", "unilevel"}
               /\ fundCalls'[p].pc # fundCalls[p].pc)
                  => wallets'[Root] = wallets[Root]]_vars

\* A first deposit of a member sponsored by the company was verified, and a
\* unilevel climb ended at a member placed directly under the company.
RootCollectsNothingReached ==
    /\ \E i \in DOMAIN offlineDeposits :
           /\ offlineDeposits[i].status = "VERIFIED"
           /\ users[offlineDeposits[i].userId].originalSponsorId = Root
    /\ \E i \in DOMAIN ledger :
           /\ ledger[i].type = "UNILEVEL"
           /\ users[ledger[i].userId].parentId = Root

-----------------------------------------------------------------------------
(* Properties of the deletion of members, checked under SpecDelete *)

\* C21: deleteUser on a member with a direct child fails with ConflictError and
\* changes nothing, so that every placed member's parentId is the root or the
\* userId of an existing member, also when a deletion interleaves with a
\* placement under the same member.
ParentsExist ==
    \A u \in UserIds :
        (users[u].exists /\ users[u].parentId # Null)
            => (users[u].parentId = Root \/ Exists(users[u].parentId))

-----------------------------------------------------------------------------
(* Properties of the ledger's entries, checked under SpecResolve *)

\* WalletLedger types whose entries are never PENDING
PostedAtCreation == {"DIRECT", "UNILEVEL", "PACKAGE_ACTIVATION", "TRANSFER_IN", "TRANSFER_OUT"}

\* C22: the ledger is append-only: no entry is deleted, no entry's amount
\* changes, an entry's status changes only while it is PENDING (to POSTED,
\* VERIFIED, REJECTED or PAID) and never again afterwards, and every DIRECT,
\* UNILEVEL, PACKAGE_ACTIVATION, TRANSFER_IN and TRANSFER_OUT entry is created
\* as POSTED.
LedgerAppendOnly ==
    [][/\ Len(ledger') >= Len(ledger)
       /\ \A i \in DOMAIN ledger :
              /\ ledger'[i].userId = ledger[i].userId
              /\ ledger'[i].type = ledger[i].type
              /\ ledger'[i].amount = ledger[i].amount
              /\ ledger'[i].status # ledger[i].status
                     => /\ ledger[i].status = "PENDING"
                        /\ ledger'[i].status \in {"POSTED", "VERIFIED", "REJECTED", "PAID"}
       /\ \A i \in DOMAIN ledger' \ DOMAIN ledger :
              ledger'[i].type \in PostedAtCreation => ledger'[i].status = "POSTED"]_vars

-----------------------------------------------------------------------------
(* Properties of the package value, checked under SpecFund *)

\* The amounts of the deposits of member u that have the given status
RECURSIVE DepositSum(_, _, _)
DepositSum(deposits, u, status) ==
    IF deposits = <<>> THEN 0
    ELSE LET d == deposits[Len(deposits)]
         IN  DepositSum(SubSeq(deposits, 1, Len(deposits) - 1), u, status)
                 + (IF d.userId = u /\ d.status = status THEN d.amountUSDT ELSE 0)

\* The package value of every member is the sum of the member's verified
\* offline deposits and confirmed crypto deposits.
PackageIsFundedSum ==
    \A u \in UserIds :
        pkg[u].packageUSD = DepositSum(offlineDeposits, u, "VERIFIED")
                                + DepositSum(cryptoDeposits, u, "CONFIRMED")

\* C25: a member's packageUSD never decreases and, in every quiescent state,
\* equals the sum of the amounts of the member's verified offline deposits and
\* confirmed crypto deposits, also when two deposits of the member are verified
\* at the same time.
PackageNeverLost ==
    /\ [](Quiet => PackageIsFundedSum)
    /\ [][\A u \in UserIds : pkg'[u].packageUSD >= pkg[u].packageUSD]_vars

-----------------------------------------------------------------------------
(* Properties of the transfer OTP's use, checked under SpecWallet *)

\* The checks of executeTransfer that come before the OTP's
BeforeOtpChecks == {"self", "amount", "sender", "recipient", "wallet"}

\* C26: each OTP issued by generateAndSendTransferOtp authorizes at most one
\* successful transfer: a transfer commits only while the OTP it checked is
\* still the stored one and clears it, and a further executeTransfer without a
\* new OTP fails with AuthorizationError; no transfer passes its checks more
\* than 10 minutes after the OTP was issued.
OtpSingleUse ==
    [][\A p \in Procs :
          LET c == walletCalls[p]
              d == walletCalls'[p]
          IN  /\ (c.op = "executeTransfer" /\ c.pc = "commit" /\ d.pc = "done"
                      /\ d.err = "OK")
                  => /\ otps[c.senderId].otp # NoOtp
                     /\ otps[c.senderId] = c.snapshot.otp
                     /\ otps'[c.senderId].otp = NoOtp
                     /\ otps'[c.senderId].otpExpires = NoTime
              /\ (c.pc = "idle" /\ d.op = "executeTransfer" /\ d.pc = "debit")
                  => /\ otps[d.senderId].otp # NoOtp
                     /\ otpRun[d.senderId].lastAt # NoTime
                     /\ now - otpRun[d.senderId].lastAt <= OTP_TTL
              /\ (c.pc = "idle" /\ d.op = "executeTransfer" /\ d.senderId \in UserIds
                      /\ d.reason \notin BeforeOtpChecks
                      /\ otps[d.senderId].otp = NoOtp)
                  => /\ d.pc = "done"
                     /\ d.err = "AuthorizationError"]_vars

\* After a transfer of the sender went through, a further executeTransfer found
\* no OTP.
OtpSingleUseReached ==
    \E p \in Procs :
        /\ walletCalls[p].op = "executeTransfer"
        /\ walletCalls[p].pc = "done"
        /\ walletCalls[p].reason = "no otp"
        /\ \E i \in DOMAIN ledger :
               /\ ledger[i].type = "TRANSFER_OUT"
               /\ ledger[i].userId = walletCalls[p].senderId

-----------------------------------------------------------------------------
(* Properties of the monthly report, checked under SpecPayout *)

\* The highest breakpoint of B that does not exceed v
HighestBreakpoint(B, v) == CHOOSE b \in B : b <= v /\ \A c \in B : c <= v => c <= b

\* The breakpoints as listed, with 2000 or 2500 as the sixth
ListedBreakpoints(sixth) == {0, 50, 100, 500, 1000, sixth, 5000, 10000}

\* The monthly rate of each breakpoint of getTieredROIRate, in percent
TierRates ==
    [b \in {0, 50, 100, 300, 500, 1000, 2500, 5000, 10000} |->
        CASE b = 0 -> 0
          [] b = 50 -> 5
          [] b = 100 -> 6
          [] b = 300 -> 7
          [] b = 500 -> 8
          [] b = 1000 -> 10
          [] b = 2500 -> 12
          [] b = 5000 -> 14
          [] b = 10000 -> 16]

\* C28, as stated: getTieredROIRate is a step function over the breakpoints
\* 0, 50, 100, 500, 1000, 2000 or 2500, 5000, 10000: the rate of a package is
\* the rate of the highest of these breakpoints that does not exceed it.
TieredRateAsListed ==
    payoutRun.pc = "done" =>
        \E sixth \in {2000, 2500} :
            payoutRun.roiRate =
                getTieredROIRate(HighestBreakpoint(ListedBreakpoints(sixth),
                                                   payoutRun.packageUSD))

\* C28, amended: getTieredROIRate is a step function over the breakpoints 0,
\* 50, 100, 300, 500, 1000, 2500, 5000, 10000 with the rates 0, 5, 6, 7, 8, 10,
\* 12, 14, 16 percent: 0 below 50, the rate of the highest breakpoint not
\* exceeding the package otherwise (10 percent for 1200), and no larger
\* package has a smaller rate.
TieredRate ==
    payoutRun.pc = "done" =>
        /\ payoutRun.roiRate =
               TierRates[HighestBreakpoint(DOMAIN TierRates, payoutRun.packageUSD)]
        /\ payoutRun.packageUSD < 50 => payoutRun.roiRate = 0
        /\ payoutRun.packageUSD = 1200 => payoutRun.roiRate = 10
        /\ \A larger \in PayoutPackages :
               larger >= payoutRun.packageUSD
                   => getTieredROIRate(larger) >= payoutRun.roiRate

\* A package between 300 and 499 was reported at 7 percent.
TieredRateReached ==
    /\ payoutRun.pc = "done"
    /\ payoutRun.packageUSD \in 300..499
    /\ payoutRun.roiRate = 7

\* The day of month monthDate that date falls on (below 1 before the month,
\* above its number of days after it)
DayOfMonth(date, monthDate) == ((date - startOfMonth(monthDate)) \div DayParts) + 1

\* C29: the ROI of a member who joined on day d of the reported month of D
\* days is packageUSD * rate * (D - d + 1) / D, which is 40 for a package of
\* 1200 joined on day 21 of a 30-day month; a member who joined before the
\* month receives packageUSD * rate.
ProratedRoi ==
    payoutRun.pc = "done" =>
        LET r == payoutRun
            D == MonthDays[r.monthDate]
            d == DayOfMonth(r.dateJoined, r.monthDate)
            rate == getTieredROIRate(r.packageUSD)
        IN  /\ d \in 1..D
                => r.roiPayout.hundredths * D
                       = r.packageUSD * rate * (D - d + 1) * r.roiPayout.over
            /\ d < 1 => r.roiPayout.hundredths = r.packageUSD * rate * r.roiPayout.over
            /\ (r.packageUSD = 1200 /\ D = 30 /\ d = 21)
                => r.roiPayout.hundredths = 4000 * r.roiPayout.over

\* A package of 1200 joined on day 21 of a 30-day month was reported at 40.
ProratedRoiReached ==
    /\ payoutRun.pc = "done"
    /\ payoutRun.packageUSD = 1200
    /\ MonthDays[payoutRun.monthDate] = 30
    /\ DayOfMonth(payoutRun.dateJoined, payoutRun.monthDate) = 21
    /\ payoutRun.roiPayout.hundredths = 4000 * payoutRun.roiPayout.over

-----------------------------------------------------------------------------
(* Properties of the bonuses of a deposit without value, checked under
   SpecZero *)

\* C30: no DIRECT or UNILEVEL ledger entry with amount 0 is ever created: a
\* bonus whose computed amount is zero is skipped without a ledger row.
NoZeroBonusEntry ==
    \A i \in DOMAIN ledger :
        ledger[i].type \in {"DIRECT", "UNILEVEL"} => ledger[i].amount # 0

-----------------------------------------------------------------------------
(* Properties of the tree under updateUser, checked under SpecUpline *)

\* Following parentId from member u reaches the root without meeting a member
\* of seen or a member met before
RECURSIVE ClimbsToRoot(_, _)
ClimbsToRoot(u, seen) ==
    IF u = Root THEN TRUE
    ELSE IF u \in seen \/ u \notin UserIds THEN FALSE
    ELSE IF ~users[u].exists THEN FALSE
    ELSE ClimbsToRoot(users[u].parentId, seen \cup {u})

\* C32: the parent pointers of the placed members form a forest rooted at the
\* root identity: no member is its own parent, and following parentId from
\* any placed member reaches the root without visiting a member twice.
ParentForest ==
    \A u \in UserIds :
        (users[u].exists /\ users[u].parentId # Null)
            => /\ users[u].parentId # u
               /\ ClimbsToRoot(u, {})

-----------------------------------------------------------------------------
(* Properties of concurrent withdrawals, checked under SpecResolve *)

\* Every summary's availableToWithdraw is at least 0.
BalancesNonNegative ==
    \A o \in WalletOwners : wallets[o].exists => wallets[o].availableToWithdraw >= 0

\* C33: every member's availableToWithdraw is >= 0, also under concurrency:
\* the debit of a withdrawal request takes its amount off the balance as it
\* is when the debit is written, so that two debits that each passed the
\* sufficient-funds check are both taken off and a credit that landed between
\* the read and the write of a debit is kept.
BalanceDebitsNotLost ==
    /\ [](\A o \in WalletOwners :
              wallets[o].exists => wallets[o].availableToWithdraw >= 0)
    /\ [][\A p \in Procs :
             LET c == walletCalls[p]
                 d == walletCalls'[p]
             IN  (/\ c.op = "createWithdrawalRequest"
                  /\ c.pc = "summary"
                  /\ d.pc = "done")
                     => /\ wallets'[c.senderId].availableToWithdraw
                               = wallets[c.senderId].availableToWithdraw - c.amount
                        /\ wallets'[c.senderId].availableToWithdraw >= 0]_vars

\* Another call has refunded withdrawal entry e and not yet returned.
RefundedByOther(p, e) ==
    \E q \in Procs \ {p} :
        /\ walletCalls[q].op = "rejectWithdrawal"
        /\ walletCalls[q].pc \in {"rejected", "done"}
        /\ walletCalls[q].err \in {"", "OK"}
        /\ walletCalls[q].entryId = e

\* C34: each withdrawal request is resolved at most once: a refund is paid
\* only for an entry that is still PENDING and that no other call has
\* refunded, an entry is marked PAID only if it is neither REJECTED nor
\* refunded, and a PAID entry is not marked REJECTED; so it ends PAID without
\* a refund or REJECTED with one refund.
ResolvedAtMostOnce ==
    [][\A p \in Procs :
          LET c == walletCalls[p]
              d == walletCalls'[p]
          IN  /\ (/\ c.op = "rejectWithdrawal"
                  /\ c.pc = "refund"
                  /\ d.pc = "rejected")
                     => /\ ledger[c.entryId].status = "PENDING"
                        /\ ~RefundedByOther(p, c.entryId)
              /\ (/\ c.op = "approveWithdrawal"
                  /\ c.pc = "paid"
                  /\ d.pc = "done")
                     => /\ ledger[c.entryId].status # "REJECTED"
                        /\ ~RefundedByOther(p, c.entryId)
              /\ (/\ c.op = "rejectWithdrawal"
                  /\ c.pc = "rejected"
                  /\ d.pc = "done")
                     => ledger[c.entryId].status # "PAID"]_vars

-----------------------------------------------------------------------------
(* Properties of a verification that fails on the way, checked under
   SpecAbort *)

\* C35: deposit verification is all-or-nothing: whenever a
\* verifyDepositAndActivatePackage call has ended, normally or by a failure,
\* either the deposit is VERIFIED and its ledger entry, package and
\* PACKAGE_ACTIVATION entry are applied, or the deposit is still PENDING and
\* neither a bonus nor a PACKAGE_ACTIVATION entry of it exists.
VerificationAllOrNothing ==
    \A p \in Procs :
        (/\ fundCalls[p].op = "verifyDeposit"
         /\ fundCalls[p].pc = "done"
         /\ fundCalls[p].depositId \in DOMAIN offlineDeposits)
            => LET depositId == fundCalls[p].depositId
                   d == offlineDeposits[depositId]
               IN  \/ /\ d.status = "VERIFIED"
                      /\ ActivationEntries(ledger, depositId) # {}
                      /\ pkg[d.userId].isPackageActive
                      /\ pkg[d.userId].packageUSD >= d.amountUSDT
                      /\ \A i \in DOMAIN ledger :
                             (/\ ledger[i].type = "OFFLINE_DEPOSIT"
                              /\ ledger[i].depositId = depositId)
                                 => ledger[i].status = "VERIFIED"
                   \/ /\ d.status = "PENDING"
                      /\ ActivationEntries(ledger, depositId) = {}
                      /\ BonusEntries("DIRECT", depositId) = {}
                      /\ BonusEntries("UNILEVEL", depositId) = {}

-----------------------------------------------------------------------------
(* Properties of the OTPs of the login flow, checked under SpecLogin *)

\* C36: executeTransfer is authorized only by an OTP issued through
\* generateAndSendTransferOtp: a transfer passes its OTP check only on the
\* OTP that generateAndSendTransferOtp issued last to the sender, never on one
\* stored by the login flow.
TransferOtpOnly ==
    [][\A p \in Procs :
          LET c == walletCalls[p]
              d == walletCalls'[p]
          IN  (/\ c.pc = "idle"
               /\ d.op = "executeTransfer"
               /\ d.pc = "debit")
                  => /\ otpRun[d.senderId].lastAt # NoTime
                     /\ otps[d.senderId].otpExpires
                            = otpRun[d.senderId].lastAt + OTP_TTL]_vars

\* The lockout the sender's user document holds is in force
StoredLockout(u) ==
    /\ otps[u].otpLockoutExpires # NoTime
    /\ now < otps[u].otpLockoutExpires

-----------------------------------------------------------------------------
(* Properties of the gateway's webhooks, checked under SpecWebhook *)

\* Every crypto deposit is PENDING, CONFIRMED, FAILED or EXPIRED
CryptoStatusListed ==
    \A i \in DOMAIN cryptoDeposits :
        cryptoDeposits[i].status \in {"PENDING", "CONFIRMED", "FAILED", "EXPIRED"}

\* No step changes the status of a deposit that is not PENDING
CryptoStatusFinal ==
    [][\A i \in DOMAIN cryptoDeposits :
          cryptoDeposits[i].status # "PENDING"
              => cryptoDeposits'[i].status = cryptoDeposits[i].status]_vars

\* A 'finished' webhook with another payment id than the stored one ends in
\* ValidationError and changes nothing
FinishedMismatchRejected ==
    [][\A p \in Procs, order_id \in DOMAIN cryptoDeposits :
          \A payment_id \in WebhookPaymentIds(order_id) :
              ( /\ payment_id # cryptoDeposits[order_id].nowPaymentsPaymentId
                /\ handleNowPaymentsWebhook(p, order_id, payment_id, "finished") )
                  => /\ fundCalls'[p].pc = "done"
                     /\ fundCalls'[p].err = "ValidationError"
                     /\ UNCHANGED <<cryptoDeposits, ledger, wallets, pkg>>]_vars

\* C38: a crypto deposit leaves PENDING at most once, to CONFIRMED, FAILED or
\* EXPIRED, and these are terminal: no webhook of any status, in any order or
\* interleaving, changes the status of a deposit that is no longer PENDING;
\* a 'finished' webhook whose payment id does not match the stored one fails
\* with ValidationError and changes nothing.
CryptoDepositTerminal ==
    /\ []CryptoStatusListed
    /\ CryptoStatusFinal
    /\ FinishedMismatchRejected
====
